---- MODULE Spec2Model ----
(***************************************************************************)
(* A model of the pigeon ingestion service (jjurach/pigeon).               *)
(*                                                                         *)
(* Part I   Poller (src/src/pigeon/poller.py): the poll loop, the          *)
(*          in-memory state mapping, the state file and its temp file.     *)
(*          Specification: SpecPoller.                                     *)
(* Part II  ProcessingPipeline and its processors                          *)
(*          (src/src/pigeon/processors/*.py).                              *)
(*          Specification: SpecPipeline.                                   *)
(* Part III The processors called one by one on the home inbox: STT,       *)
(*          professionalizer and RoutingProcessor                          *)
(*          (src/src/pigeon/processors/routing.py, routing/router.py,      *)
(*          routing/bead_creator.py).  Specifications: SpecStages,         *)
(*          SpecDetect.                                                    *)
(* Part IV  GoogleDriveSource (src/src/pigeon/sources/gdrive.py).          *)
(*          Specification: SpecGDrive.                                     *)
(*          SpecGDriveRestart adds the restart of the process.             *)
(* Part V   sanitize_filename (src/src/pigeon/drive_client.py).            *)
(*          Specification: SpecSanitize.                                   *)
(* Part VI  SubmoduleDiscoverer and the construction of ProjectRouter      *)
(*          (src/src/pigeon/routing/submodules.py, routing/router.py).     *)
(*          Specification: SpecRegistry.                                   *)
(* Part VII SlackSource (src/src/pigeon/sources/slack.py).                 *)
(*          Specifications: SpecSlack, SpecConv.                           *)
(* Part VIII The start() loops of the sources and of the Poller.           *)
(*          Specifications: SpecSources, SpecLoops, SpecPollerRun.         *)
(* Part IX  Two operations choosing a destination in one directory.        *)
(*          Specification: SpecRace.                                       *)
(***************************************************************************)
EXTENDS Integers, Sequences, FiniteSets, TLC

(***************************************************************************)
(* Bounds of the model.                                                    *)
(***************************************************************************)
\* longest remote listing one list_folder_files call returns
MaxListing == 2
\* poll cycles begun over the whole run
MaxCycles == 2
\* Poller processes constructed over the whole run
MaxBoots == 2
\* termination signals delivered over the whole run
MaxSignals == 1

\* remote file identifiers and remote file names
FileIds == {"f1", "f2"}
Names == {"memo.m4a"}

VARIABLES
    \* ---- Poller process -------------------------------------------------
    pc,           \* position of the Poller process
    running,      \* Poller.running
    state,        \* Poller.state: set of [id, name] (a dict keyed by id)
    queue,        \* the rest of new_files in the running cycle
    savePc,       \* position inside _save_state ("none" when not saving)
    \* ---- filesystem and clock --------------------------------------------
    stateFile,    \* tmp/pigeon-state.json
    tmpFile,      \* tmp/pigeon-state.json.tmp
    inbox,        \* paths existing in the inbox directory
    now,          \* wall clock (seconds)
    \* ---- run counters ------------------------------------------------------
    cycles, boots, signals,
    \* ---- history (observation only; no action reads them in a guard) -------
    dlNow,        \* id of the latest download_file call of the running cycle
    listed,       \* ids in the listing the running cycle got
    everRecorded, \* ids ever recorded in state by a successful download
    bootRecorded, \* ids recorded in state by this process
    startKeys,    \* keys of state when the running cycle began
    startFile,    \* keys of the state file when the running cycle began
    startEver,    \* everRecorded when the running cycle began
    startBoot,    \* bootRecorded when the running cycle began
    lastSave      \* outcome of the latest finished save ("none" while saving)

pollerVars == <<pc, running, state, queue, savePc, stateFile, tmpFile, inbox,
                now, cycles, boots, signals, dlNow, listed, everRecorded,
                bootRecorded, startKeys, startFile, startEver, startBoot,
                lastSave>>

\* ---- ProcessingPipeline --------------------------------------------------
VARIABLES
    enable_stt,   \* constructor argument enable_stt
    enable_professionalize, \* constructor argument enable_professionalize
    mellona_available,      \* ProfessionalizerProcessor.mellona_available
    fs,           \* the files of the working directory: path -> content
    history,      \* ProcessingPipeline.history
    calls,        \* process() calls made so far
    last          \* what the latest process() call was given and did

pipeVars == <<enable_stt, enable_professionalize, mellona_available, fs,
              history, calls, last>>

\* ---- RoutingProcessor and direct processor calls --------------------------
VARIABLES
    cache,        \* ProjectRouter.cache: the registered names, in dict order
    archive,      \* files of <home>/dev_notes/inbox-archive: path -> content
    pinbox,       \* files of <project>/dev_notes/inbox, for every project
    stage         \* what the latest direct processor call was given and did

stageVars == <<cache, archive, pinbox, stage>>

\* ---- GoogleDriveSource -----------------------------------------------------
VARIABLES
    g_running,    \* GoogleDriveSource._running
    processed,    \* GoogleDriveSource._processed_files
    gpc,          \* position inside poll(): "idle", or "scan" in the folder loop
    folder,       \* index of the next folder the loop of poll() visits
    \* ---- history (observation only) ----------------------------------------
    poll,         \* what the running (or latest) poll() call has done so far
    completed,    \* identifiers whose download has completed
    everFailed    \* identifiers whose download has raised

gdriveVars == <<g_running, processed, gpc, folder, poll, completed,
                everFailed>>

\* ---- sanitize_filename, SubmoduleDiscoverer, ProjectRouter.__init__ --------
VARIABLES
    san,          \* the sanitize_filename calls made on one file name
    disc          \* the repository on disk and what discovery made of it

utilVars == <<san, disc>>

\* ---- SlackSource ------------------------------------------------------------
VARIABLES
    s_running,    \* SlackSource._running
    last_message_ts, \* SlackSource._last_message_ts: channel -> timestamp
    user_cache,   \* SlackSource._user_cache: the author identifiers in it
    info_calls,   \* history: users_info calls made so far, for every author
    s_inbox,      \* the message files written to the inbox
    remote,       \* the messages posted to each channel, in posting order
    spc,          \* position inside poll(): "idle", or "scan" in the loop
    schan,        \* index of the next entry of _last_message_ts to visit
    \* ---- history (observation only) ----------------------------------------
    slk,          \* what the running (or latest) poll() call has done so far
    conv          \* a _message_to_file call on its own: its input and result

slackVars == <<s_running, last_message_ts, user_cache, info_calls, s_inbox,
               remote, spc, schan, slk, conv>>

\* ---- the start() loops -------------------------------------------------------
VARIABLES
    loop          \* which start() call is in progress and where it stands

loopVars == <<loop>>

\* ---- two operations that choose a destination in one directory --------------
VARIABLES
    race          \* the directory and where each of the two operations stands

raceVars == <<race>>

vars == <<pollerVars, pipeVars, stageVars, gdriveVars, utilVars, slackVars,
          loopVars, raceVars>>

\* what the steps of the Poller leave alone
PollerFrame ==
    UNCHANGED <<pipeVars, stageVars, gdriveVars, utilVars, slackVars, loopVars,
                raceVars>>

\* what the steps of the pipeline leave alone
PipeFrame ==
    UNCHANGED <<pollerVars, stageVars, gdriveVars, utilVars, slackVars,
                loopVars, raceVars>>

\* what the direct processor calls leave alone (they act on fs and calls)
StageFrame ==
    UNCHANGED <<pollerVars, gdriveVars, enable_stt, enable_professionalize,
                mellona_available, history, last, utilVars, slackVars,
                loopVars, raceVars>>

\* what the steps of the Drive source leave alone
GDriveFrame ==
    UNCHANGED <<pollerVars, pipeVars, stageVars, utilVars, slackVars, loopVars,
                raceVars>>

\* what the steps of sanitize_filename and of discovery leave alone
UtilFrame ==
    UNCHANGED <<pollerVars, pipeVars, stageVars, gdriveVars, slackVars,
                loopVars, raceVars>>

\* what the steps of the Slack source leave alone
SlackFrame ==
    UNCHANGED <<pollerVars, pipeVars, stageVars, gdriveVars, utilVars,
                loopVars, raceVars>>

\* what the steps of the two racing operations leave alone
RaceFrame ==
    UNCHANGED <<pollerVars, pipeVars, stageVars, gdriveVars, utilVars,
                slackVars, loopVars>>

(***************************************************************************)
(* Part I: Poller                                                          *)
(***************************************************************************)

\* A file that does not exist.
Absent == [exists |-> FALSE, complete |-> FALSE, data |-> {}]

\* set(self.state.keys())
Keys(st) == {e.id : e \in st}

\* self.state[file_id] = {...}: a dict assignment replaces the entry of the key
StatePut(st, id, name) ==
    {e \in st : e.id # id} \cup {[id |-> id, name |-> name]}

\* Remote listings: every sequence of at most MaxListing entries.
Entries == [id : FileIds, name : Names]
Listings == UNION {[1..n -> Entries] : n \in 0..MaxListing}

RECURSIVE FilterSeq(_, _)
FilterSeq(s, keep) ==
    IF s = <<>> THEN <<>>
    ELSE IF Head(s).id \in keep
         THEN <<Head(s)>> \o FilterSeq(Tail(s), keep)
         ELSE FilterSeq(Tail(s), keep)

\* mutant of new_files: the listing is not compared against the state
new_files_unfiltered(files, st) == files

\* new_files = [f for f in files if f["id"] not in downloaded_ids]
new_files(files, st) == FilterSeq(files, FileIds \ Keys(st))

\* mutant of _load_state: the file is ignored
load_state_fresh(f) == {}

\* _load_state: {} when the file is absent or is not valid JSON
_load_state(f) ==
    IF ~f.exists THEN {}
    ELSE IF ~f.complete THEN {}
    ELSE f.data

\* the identifiers a reader finds in a file (none in a missing or cut-off one)
FileKeys(f) == IF f.exists /\ f.complete THEN {e.id : e \in f.data} ELSE {}

\* json.dump(self.state, f) finished and the file closed
Snapshot(st) == [exists |-> TRUE, complete |-> TRUE, data |-> st]

\* mutant of CleanupTmp: the temporary file is left behind
CleanupTmpKeep(t) == t

\* if temp_file.exists(): temp_file.unlink()
CleanupTmp(t) == Absent

\* The uniqueness loop of _download_file: the timestamped name, or the first
\* "<name>_<counter>" that does not exist.
RECURSIVE FreeCounter(_, _, _, _)
FreeCounter(dir, ts, name, k) ==
    IF [ts |-> ts, name |-> name, n |-> k] \in dir
    THEN FreeCounter(dir, ts, name, k + 1)
    ELSE k

Destination(dir, ts, name) ==
    [ts |-> ts, name |-> name, n |-> FreeCounter(dir, ts, name, 0)]

InitPoller ==
    /\ pc = "absent"
    /\ running = FALSE
    /\ state = {}
    /\ queue = <<>>
    /\ savePc = "none"
    /\ stateFile = Absent
    /\ tmpFile = Absent
    /\ inbox = {}
    /\ now = 0
    /\ cycles = 0
    /\ boots = 0
    /\ signals = 0
    /\ dlNow = "none"
    /\ listed = {}
    /\ everRecorded = {}
    /\ bootRecorded = {}
    /\ startKeys = {}
    /\ startFile = {}
    /\ startEver = {}
    /\ startBoot = {}
    /\ lastSave = "none"

\* the observations of a cycle are dropped when the cycle is over
CycleOver ==
    /\ dlNow' = "none"
    /\ listed' = {}
    /\ startKeys' = {}
    /\ startFile' = {}
    /\ startEver' = {}
    /\ startBoot' = {}

CycleSame == UNCHANGED <<dlNow, listed, startKeys, startFile, startEver, startBoot>>

\* Poller.__init__: self.running = False; self.state = self._load_state()
Construct ==
    /\ PollerFrame
    /\ pc \in {"absent", "exited"}
    /\ boots < MaxBoots
    /\ pc' = "constructed"
    /\ running' = FALSE
    /\ state' = _load_state(stateFile)
    /\ queue' = <<>>
    /\ boots' = boots + 1
    /\ bootRecorded' = {}
    /\ CycleSame
    /\ UNCHANGED <<savePc, stateFile, tmpFile, inbox, now, cycles, signals,
                   everRecorded, lastSave>>

\* Poller.start up to the loop: self.running = True
Start ==
    /\ PollerFrame
    /\ pc = "constructed"
    /\ savePc = "none"
    /\ pc' = "loop"
    /\ running' = TRUE
    /\ CycleSame
    /\ UNCHANGED <<state, queue, savePc, stateFile, tmpFile, inbox, now,
                   cycles, boots, signals, everRecorded, bootRecorded,
                   lastSave>>

\* _poll_once, lines 64-70: list the folder and keep the new files
PollBegin ==
    /\ PollerFrame
    /\ pc = "loop"
    /\ savePc = "none"
    /\ running
    /\ cycles < MaxCycles
    /\ \E files \in Listings :
          /\ queue' = new_files(files, state)
          /\ listed' = {files[i].id : i \in 1..Len(files)}
    /\ pc' = "cycle"
    /\ cycles' = cycles + 1
    /\ startKeys' = Keys(state)
    /\ startFile' = FileKeys(stateFile)
    /\ startEver' = everRecorded
    /\ startBoot' = bootRecorded
    /\ dlNow' = "none"
    /\ UNCHANGED <<running, state, savePc, stateFile, tmpFile, inbox, now,
                   boots, signals, everRecorded, bootRecorded, lastSave>>

\* mutant of PollListFail: the exception escapes _poll_once and the loop
PollListFailEscapes ==
    /\ PollerFrame
    /\ pc = "loop"
    /\ savePc = "none"
    /\ running
    /\ cycles < MaxCycles
    /\ pc' = "finally"
    /\ cycles' = cycles + 1
    /\ running' = FALSE
    /\ savePc' = "open"
    /\ lastSave' = "none"
    /\ CycleOver
    /\ UNCHANGED <<state, queue, stateFile, tmpFile, inbox, now, boots,
                   signals, everRecorded, bootRecorded>>

\* _poll_once, lines 78-79: list_folder_files raises; the cycle ends
PollListFail ==
    /\ PollerFrame
    /\ pc = "loop"
    /\ savePc = "none"
    /\ running
    /\ cycles < MaxCycles
    /\ pc' = "sleep"
    /\ cycles' = cycles + 1
    /\ CycleOver
    /\ UNCHANGED <<running, state, queue, savePc, stateFile, tmpFile, inbox,
                   now, boots, signals, everRecorded, bootRecorded, lastSave>>

\* mutant of DownloadOne: a failed download ends the loop over the new files
DownloadOneAbort ==
    /\ PollerFrame
    /\ pc = "cycle"
    /\ savePc = "none"
    /\ queue # <<>>
    /\ LET f == Head(queue)
           dest == Destination(inbox, now, f.name)
       IN \E outcome \in {"ok", "fail", "partial"} :
            /\ dlNow' = f.id
            /\ inbox' = IF outcome = "fail" THEN inbox ELSE inbox \cup {dest}
            /\ state' = IF outcome = "ok"
                        THEN StatePut(state, f.id, f.name) ELSE state
            /\ everRecorded' = IF outcome = "ok"
                               THEN everRecorded \cup {f.id} ELSE everRecorded
            /\ bootRecorded' = IF outcome = "ok"
                               THEN bootRecorded \cup {f.id} ELSE bootRecorded
            /\ queue' = IF outcome = "ok" THEN Tail(queue) ELSE <<>>
    /\ UNCHANGED <<pc, running, savePc, stateFile, tmpFile, now, cycles, boots,
                   signals, listed, startKeys, startFile, startEver,
                   startBoot, lastSave>>

\* _download_file for the next new file.  outcome: "ok"; "fail" (download_file
\* raises before the destination is opened); "partial" (it raises after
\* io.FileIO created the destination).  The timestamp of the destination is
\* the clock's second; the downloads of one cycle fall into one second, the
\* case in which their names collide.
DownloadOne ==
    /\ PollerFrame
    /\ pc = "cycle"
    /\ savePc = "none"
    /\ queue # <<>>
    /\ LET f == Head(queue)
           dest == Destination(inbox, now, f.name)
       IN \E outcome \in {"ok", "fail", "partial"} :
            /\ dlNow' = f.id
            /\ inbox' = IF outcome = "fail" THEN inbox ELSE inbox \cup {dest}
            /\ state' = IF outcome = "ok"
                        THEN StatePut(state, f.id, f.name) ELSE state
            /\ everRecorded' = IF outcome = "ok"
                               THEN everRecorded \cup {f.id} ELSE everRecorded
            /\ bootRecorded' = IF outcome = "ok"
                               THEN bootRecorded \cup {f.id} ELSE bootRecorded
    /\ queue' = Tail(queue)
    /\ UNCHANGED <<pc, running, savePc, stateFile, tmpFile, now, cycles, boots,
                   signals, listed, startKeys, startFile, startEver,
                   startBoot, lastSave>>

\* _poll_once returns; start() goes on to time.sleep
CycleEnd ==
    /\ PollerFrame
    /\ pc = "cycle"
    /\ savePc = "none"
    /\ queue = <<>>
    /\ pc' = "sleep"
    /\ CycleOver
    /\ UNCHANGED <<running, state, queue, savePc, stateFile, tmpFile, inbox,
                   now, cycles, boots, signals, everRecorded, bootRecorded,
                   lastSave>>

\* time.sleep(poll_interval) returns, poll_interval >= 1 second later; back to
\* the loop test
Wake ==
    /\ PollerFrame
    /\ pc = "sleep"
    /\ savePc = "none"
    /\ pc' = "loop"
    /\ now' = now + 1
    /\ CycleSame
    /\ UNCHANGED <<running, state, queue, savePc, stateFile, tmpFile, inbox,
                   cycles, boots, signals, everRecorded, bootRecorded,
                   lastSave>>

\* stop(): self.running = False, then _save_state is entered
stop ==
    /\ running' = FALSE
    /\ savePc' = "open"
    /\ lastSave' = "none"

\* start(), lines 42 and 47-48: the loop test fails, finally: self.stop()
LoopExit ==
    /\ PollerFrame
    /\ pc = "loop"
    /\ savePc = "none"
    /\ ~running
    /\ pc' = "finally"
    /\ stop
    /\ CycleSame
    /\ UNCHANGED <<state, queue, stateFile, tmpFile, inbox, now, cycles, boots,
                   signals, everRecorded, bootRecorded>>

\* start(), lines 45-48: an exception escapes the loop body; finally: stop()
LoopError ==
    /\ PollerFrame
    /\ pc = "sleep"
    /\ savePc = "none"
    /\ pc' = "finally"
    /\ stop
    /\ CycleSame
    /\ UNCHANGED <<state, queue, stateFile, tmpFile, inbox, now, cycles, boots,
                   signals, everRecorded, bootRecorded>>

\* _handle_signal: SIGINT or SIGTERM arrives between two steps of the main
\* thread; the handler calls stop() and the interrupted code resumes.  A signal
\* that arrives while a save is running is taken after the save.
_handle_signal ==
    /\ PollerFrame
    /\ pc \in {"constructed", "loop", "cycle", "sleep"}
    /\ savePc = "none"
    /\ signals < MaxSignals
    /\ signals' = signals + 1
    /\ stop
    /\ CycleSame
    /\ UNCHANGED <<pc, state, queue, stateFile, tmpFile, inbox, now, cycles,
                   boots, everRecorded, bootRecorded>>

\* _save_state returns to the caller of stop(): start() ends after its
\* finally block, a signal handler resumes the interrupted code
SaveReturn(outcome) ==
    /\ savePc' = "none"
    /\ lastSave' = outcome
    /\ pc' = IF pc = "finally" THEN "exited" ELSE pc

\* _save_state, line 151: open(temp_file, "w") creates or truncates it
SaveOpen ==
    /\ PollerFrame
    /\ savePc = "open"
    /\ tmpFile' = [exists |-> TRUE, complete |-> FALSE, data |-> {}]
    /\ savePc' = "opened"
    /\ CycleSame
    /\ UNCHANGED <<pc, running, state, queue, stateFile, inbox, now, cycles,
                   boots, signals, everRecorded, bootRecorded, lastSave>>

\* mutant of SaveWriteDone: the dump goes straight to the state file
SaveWriteInPlace ==
    /\ PollerFrame
    /\ savePc \in {"opened", "writing"}
    /\ stateFile' = [exists |-> TRUE, complete |-> FALSE, data |-> {}]
    /\ savePc' = "written"
    /\ CycleSame
    /\ UNCHANGED <<pc, running, state, queue, tmpFile, inbox, now, cycles,
                   boots, signals, everRecorded, bootRecorded, lastSave>>

\* _save_state, line 152, first part: json.dump has written some entries
SaveWritePart ==
    /\ PollerFrame
    /\ savePc = "opened"
    /\ state # {}
    /\ \E part \in SUBSET state :
          /\ part # state
          /\ tmpFile' = [exists |-> TRUE, complete |-> FALSE, data |-> part]
    /\ savePc' = "writing"
    /\ CycleSame
    /\ UNCHANGED <<pc, running, state, queue, stateFile, inbox, now, cycles,
                   boots, signals, everRecorded, bootRecorded, lastSave>>

\* _save_state, lines 151-152: the dump is complete and the file closed
SaveWriteDone ==
    /\ PollerFrame
    /\ savePc \in {"opened", "writing"}
    /\ tmpFile' = Snapshot(state)
    /\ savePc' = "written"
    /\ CycleSame
    /\ UNCHANGED <<pc, running, state, queue, stateFile, inbox, now, cycles,
                   boots, signals, everRecorded, bootRecorded, lastSave>>

\* _save_state, line 155: temp_file.replace(state_file)
SaveRename ==
    /\ PollerFrame
    /\ savePc = "written"
    /\ stateFile' = tmpFile
    /\ tmpFile' = Absent
    /\ SaveReturn("ok")
    /\ CycleSame
    /\ UNCHANGED <<running, state, queue, inbox, now, cycles, boots, signals,
                   everRecorded, bootRecorded>>

\* _save_state, lines 157-161: open, write or rename raises; the temporary
\* file is removed if it exists
SaveFail ==
    /\ PollerFrame
    /\ savePc \in {"open", "opened", "writing", "written"}
    /\ tmpFile' = CleanupTmp(tmpFile)
    /\ SaveReturn("failed")
    /\ CycleSame
    /\ UNCHANGED <<running, state, queue, stateFile, inbox, now, cycles, boots,
                   signals, everRecorded, bootRecorded>>

\* The process is killed or the machine stops: memory is lost, files stay.
Crash ==
    /\ PollerFrame
    /\ pc \notin {"absent", "exited"}
    /\ pc' = "absent"
    /\ running' = FALSE
    /\ state' = {}
    /\ queue' = <<>>
    /\ savePc' = "none"
    /\ bootRecorded' = {}
    /\ CycleOver
    /\ UNCHANGED <<stateFile, tmpFile, inbox, now, cycles, boots, signals,
                   everRecorded, lastSave>>

NextPoller ==
    \/ Construct
    \/ Start
    \/ PollBegin
    \/ PollListFail
    \/ DownloadOne
    \/ CycleEnd
    \/ Wake
    \/ LoopExit
    \/ LoopError
    \/ _handle_signal
    \/ SaveOpen
    \/ SaveWritePart
    \/ SaveWriteDone
    \/ SaveRename
    \/ SaveFail
    \/ Crash

(***************************************************************************)
(* Part II: ProcessingPipeline, STTProcessor, ProfessionalizerProcessor    *)
(*                                                                         *)
(* A path is [stem, spec, n, ext]: "<stem>" followed by spec times "-spec",*)
(* by "_<n>" when n > 0, and by ".<ext>".  A text is the sequence of its   *)
(* blank-line separated paragraphs, each one of                            *)
(*   "ws"  whitespace only          "br"  begins with "["                  *)
(*   "pl"  any other text           "hd"  begins with "# Specification"    *)
(*   "sec" the line "## Content"    "bin" bytes that are not valid text    *)
(***************************************************************************)

\* process() calls made over the whole run
MaxCalls == 2

Stems == {"rec"}
UserExts == {"MP3", "txt"}
UserPaths == [stem : Stems, spec : {0}, n : {0}, ext : UserExts]
Contents == {<<>>, <<"ws">>, <<"pl">>, <<"bin">>}

\* the processors' names, in the order of ProcessingPipeline.__init__
ProcNames == {"stt", "professionalize"}
\* what the environment does to a stage: nothing; an I/O error inside the
\* stage's try block; an OSError from the file_path.exists() test before it
Faults == {"none", "io", "raise"}
\* A call meets at most one fault, since the first one ends it: no fault, or
\* one kind of fault in one stage.
NoFaults == [n \in ProcNames |-> "none"]
FaultChoices ==
    {NoFaults} \cup {[NoFaults EXCEPT ![n] = k] : n \in ProcNames,
                                                 k \in Faults \ {"none"}}
\* what the Mellona provider answers: a text with the heading, one without,
\* or an exception; "unused" when there is no provider to ask
LlmReplies == {"heading", "plain", "fail"}

\* None (no output)
NoPath == [stem |-> "", spec |-> 0, n |-> 0, ext |-> ""]

NoFiles == [p \in {} |-> <<>>]

\* open(path, "w") ... write: the file is created or replaced
WriteFile(f, q, c) == [p \in DOMAIN f \cup {q} |-> IF p = q THEN c ELSE f[p]]

\* str.lower() on the extension
Lower(e) == CASE e = "MP3" -> "mp3" [] e = "M4A" -> "m4a" [] OTHER -> e

supported_formats == {"m4a", "mp3", "wav", "acc", "ogg", "flac"}

\* the placeholder transcript: "[STT Transcription Placeholder]..." and, after
\* a blank line, "Transcription would be generated..."
STTText == <<"br", "pl">>

\* mutant of STTProcess: the extension is compared without lower()
STTProcessCase(f, p, fault) ==
    IF fault = "raise" THEN [out |-> NoPath, fs |-> f, raised |-> TRUE]
    ELSE IF p \notin DOMAIN f \/ p.ext \notin supported_formats \/ fault = "io"
    THEN [out |-> NoPath, fs |-> f, raised |-> FALSE]
    ELSE [out |-> [p EXCEPT !.ext = "txt"],
          fs |-> WriteFile(f, [p EXCEPT !.ext = "txt"], STTText),
          raised |-> FALSE]

\* mutant of STTProcess: the extension is not tested
STTProcessAnyFormat(f, p, fault) ==
    IF fault = "raise" THEN [out |-> NoPath, fs |-> f, raised |-> TRUE]
    ELSE IF p \notin DOMAIN f \/ fault = "io"
    THEN [out |-> NoPath, fs |-> f, raised |-> FALSE]
    ELSE [out |-> [p EXCEPT !.ext = "txt"],
          fs |-> WriteFile(f, [p EXCEPT !.ext = "txt"], STTText),
          raised |-> FALSE]

\* STTProcessor.process
STTProcess(f, p, fault) ==
    IF fault = "raise" THEN [out |-> NoPath, fs |-> f, raised |-> TRUE]
    ELSE IF p \notin DOMAIN f THEN [out |-> NoPath, fs |-> f, raised |-> FALSE]
    ELSE IF Lower(p.ext) \notin supported_formats
    THEN [out |-> NoPath, fs |-> f, raised |-> FALSE]
    ELSE IF fault = "io" THEN [out |-> NoPath, fs |-> f, raised |-> FALSE]
    ELSE LET text_file == [p EXCEPT !.ext = "txt"]
         IN [out |-> text_file,
             fs |-> WriteFile(f, text_file, STTText),
             raised |-> FALSE]

\* mutant of IsBlank: no text counts as empty
IsBlankNever(text) == FALSE

\* not raw_text.strip()
IsBlank(text) == \A i \in 1..Len(text) : text[i] = "ws"

Kept(para) == para # "ws" /\ para # "br"

\* mutant of _professionalize_basic: the heading lines are not written
professionalize_basic_bare(text) == SelectSeq(text, Kept)

\* _professionalize_basic: the heading, the date, "## Content", then every
\* paragraph that is not empty and does not begin with "["
_professionalize_basic(text) == <<"hd", "sec">> \o SelectSeq(text, Kept)

LlmText(llm) ==
    IF llm = "heading" THEN <<"hd", "pl">> ELSE <<"pl">>

\* _professionalize_with_mellona: the provider's text, or the basic method
\* when the call raises
_professionalize_with_mellona(text, llm) ==
    IF llm = "fail" THEN _professionalize_basic(text) ELSE LlmText(llm)

\* the uniqueness loop of ProfessionalizerProcessor.process
RECURSIVE FreeOutput(_, _, _)
FreeOutput(f, base, k) ==
    IF [base EXCEPT !.n = k] \in DOMAIN f
    THEN FreeOutput(f, base, k + 1)
    ELSE [base EXCEPT !.n = k]

\* ProfessionalizerProcessor.process (its inputs here never carry a counter)
ProProcess(f, p, fault, mellona, llm) ==
    IF fault = "raise" THEN [out |-> NoPath, fs |-> f, raised |-> TRUE]
    ELSE IF p \notin DOMAIN f THEN [out |-> NoPath, fs |-> f, raised |-> FALSE]
    ELSE IF fault = "io" THEN [out |-> NoPath, fs |-> f, raised |-> FALSE]
    ELSE IF \E i \in 1..Len(f[p]) : f[p][i] = "bin"
    THEN [out |-> NoPath, fs |-> f, raised |-> FALSE]
    ELSE IF IsBlank(f[p]) THEN [out |-> NoPath, fs |-> f, raised |-> FALSE]
    ELSE LET professionalized ==
                 IF mellona THEN _professionalize_with_mellona(f[p], llm)
                 ELSE _professionalize_basic(f[p])
             base == [stem |-> p.stem, spec |-> p.spec + 1, n |-> 0,
                      ext |-> "md"]
             output_file == FreeOutput(f, base, 0)
         IN [out |-> output_file,
             fs |-> WriteFile(f, output_file, professionalized),
             raised |-> FALSE]

\* processor.process(current_file)
RunProcessor(name, f, p, env) ==
    IF name = "stt" THEN STTProcess(f, p, env.faults[name])
    ELSE ProProcess(f, p, env.faults[name], env.mellona, env.llm)

\* mutant of Processors: the professionalizer is appended first
ProcessorsSwapped(stt, pro) ==
    (IF pro THEN <<"professionalize">> ELSE <<>>)
        \o (IF stt THEN <<"stt">> ELSE <<>>)

\* ProcessingPipeline.__init__: self.processors
Processors(stt, pro) ==
    (IF stt THEN <<"stt">> ELSE <<>>)
        \o (IF pro THEN <<"professionalize">> ELSE <<>>)

\* mutant of StageRecord: every stage is recorded as a success
StageRecordSuccess(name, cur, result) ==
    [processor |-> name, status |-> "success", input |-> cur,
     output |-> result]

\* the stage record of lines 65-72
StageRecord(name, cur, result) ==
    [processor |-> name,
     status |-> IF result # NoPath THEN "success" ELSE "failed",
     input |-> cur,
     output |-> result]

\* mutant of OnError: the exception is not caught
OnErrorRaise(f, stages, invoked) ==
    [status |-> "raised", result |-> NoPath, fs |-> f, stages |-> stages,
     invoked |-> invoked, error |-> "", declined |-> 0, raised |-> TRUE,
     logged |-> FALSE, propagated |-> TRUE]

\* the except clause of lines 88-93
OnError(f, stages, invoked) ==
    [status |-> "error", result |-> NoPath, fs |-> f, stages |-> stages,
     invoked |-> invoked, error |-> "OSError", declined |-> 0,
     raised |-> TRUE, logged |-> TRUE, propagated |-> FALSE]

\* the loop of lines 61-86, from processor i on
RECURSIVE RunStages(_, _, _, _, _, _, _)
RunStages(procs, i, cur, f, stages, invoked, env) ==
    IF i > Len(procs)
    THEN [status |-> "success", result |-> cur, fs |-> f, stages |-> stages,
          invoked |-> invoked, error |-> "", declined |-> 0,
          raised |-> FALSE, logged |-> TRUE, propagated |-> FALSE]
    ELSE LET r == RunProcessor(procs[i], f, cur, env)
             called == Append(invoked, [processor |-> procs[i], input |-> cur,
                                        output |-> r.out])
             recorded == Append(stages, StageRecord(procs[i], cur, r.out))
         IN IF r.raised THEN OnError(r.fs, stages, called)
            ELSE IF r.out = NoPath
            THEN [status |-> "failed", result |-> NoPath, fs |-> r.fs,
                  stages |-> recorded, invoked |-> called, error |-> "",
                  declined |-> i, raised |-> FALSE, logged |-> TRUE,
                  propagated |-> FALSE]
            ELSE RunStages(procs, i + 1, r.out, r.fs, recorded, called, env)

\* mutant of process: the existence test of lines 48-50 is missing
process_unchecked(f, procs, file_path, env) ==
    RunStages(procs, 1, file_path, f, <<>>, <<>>, env)

\* ProcessingPipeline.process: what the call does, and whether it appends a
\* history entry (logged)
process(f, procs, file_path, env) ==
    IF file_path \notin DOMAIN f
    THEN [status |-> "missing", result |-> NoPath, fs |-> f, stages |-> <<>>,
          invoked |-> <<>>, error |-> "", declined |-> 0, raised |-> FALSE,
          logged |-> FALSE, propagated |-> FALSE]
    ELSE RunStages(procs, 1, file_path, f, <<>>, <<>>, env)

\* mutant of Entry: line 75 is missing, the entry of a declined call keeps
\* the status it was created with
EntryPending(file_path, run) ==
    [input |-> file_path,
     stages |-> run.stages,
     status |-> IF run.status = "failed" THEN "pending" ELSE run.status,
     output |-> IF run.status = "success" THEN run.result ELSE NoPath,
     error |-> run.error]

\* the history entry of a call ("output" and "error" are NoPath and "" when
\* the entry has no such key)
Entry(file_path, run) ==
    [input |-> file_path,
     stages |-> run.stages,
     status |-> run.status,
     output |-> IF run.status = "success" THEN run.result ELSE NoPath,
     error |-> run.error]

NoCall == [input |-> NoPath, existed |-> FALSE, result |-> NoPath,
           invoked |-> <<>>, declined |-> 0, raised |-> FALSE,
           propagated |-> FALSE, clean |-> FALSE, llm |-> "unused",
           histBefore |-> 0]

\* a pipeline that has been constructed, with any choice of stages
InitPipeline ==
    /\ enable_stt \in BOOLEAN
    /\ enable_professionalize \in BOOLEAN
    /\ mellona_available \in (IF enable_professionalize THEN BOOLEAN
                                ELSE {FALSE})
    /\ fs = NoFiles
    /\ history = <<>>
    /\ calls = 0
    /\ last = NoCall

\* no pipeline in use
PipeIdle ==
    /\ enable_stt = TRUE
    /\ enable_professionalize = TRUE
    /\ mellona_available = FALSE
    /\ fs = NoFiles
    /\ history = <<>>
    /\ calls = 0
    /\ last = NoCall

\* a file arrives in the working directory
CreateFile ==
    /\ PipeFrame
    /\ \E p \in UserPaths \ DOMAIN fs, c \in Contents :
          fs' = WriteFile(fs, p, c)
    /\ UNCHANGED <<enable_stt, enable_professionalize, mellona_available,
                   history, calls, last>>

\* one call pipeline.process(file_path)
Process ==
    /\ PipeFrame
    /\ calls < MaxCalls
    /\ \E file_path \in UserPaths, faults \in FaultChoices,
          llm \in (IF mellona_available THEN LlmReplies ELSE {"unused"}) :
          LET env == [faults |-> faults, llm |-> llm,
                      mellona |-> mellona_available]
              procs == Processors(enable_stt, enable_professionalize)
              run == process(fs, procs, file_path, env)
          IN /\ fs' = run.fs
             /\ history' = IF run.logged
                           THEN Append(history, Entry(file_path, run))
                           ELSE history
             /\ last' = [input |-> file_path,
                         existed |-> file_path \in DOMAIN fs,
                         result |-> run.result,
                         invoked |-> run.invoked,
                         declined |-> run.declined,
                         raised |-> run.raised,
                         propagated |-> run.propagated,
                         clean |-> \A n \in ProcNames : faults[n] = "none",
                         llm |-> llm,
                         histBefore |-> Len(history)]
    /\ calls' = calls + 1
    /\ UNCHANGED <<enable_stt, enable_professionalize, mellona_available>>

NextPipeline ==
    \/ CreateFile
    \/ Process

(***************************************************************************)
(* Part III: the processors called one by one on the home inbox            *)
(*                                                                         *)
(* fs is <home>/dev_notes/inbox.  The counter of a name is its "_<k>"      *)
(* suffixes read as decimal digits: n = 0 is "memo-spec.md", n = 1 is      *)
(* "memo-spec_1.md", n = 11 is "memo-spec_1_1.md" (no counter reaches 10   *)
(* within the bounds).  Texts are token sequences as in Part II, with      *)
(*   "T_<p>" the line "Project: <p>"     "M_<p>" a mention "@<p>"          *)
(*   "pad"   a paragraph of 500 or more characters without tag or mention  *)
(* every other token being short, so that a text is read up to its first   *)
(* "pad" by f.read(500).                                                   *)
(***************************************************************************)

\* the project names a spec can refer to
Projects == {"alpha", "beta"}

\* ProjectRouter.cache after _discover_projects: the registered projects in
\* the order of discovery (a dict keeps insertion order)
Registries ==
    {<<>>, <<"alpha">>, <<"beta">>, <<"alpha", "beta">>, <<"beta", "alpha">>}

\* project_name in self.cache
Registered(c) == {c[i] : i \in 1..Len(c)}

\* group(1) of [Pp]roject:\s*([a-z0-9\-]+) matched inside one token
TagOf(tok) ==
    CASE tok = "T_alpha" -> "alpha" [] tok = "T_beta" -> "beta"
      [] OTHER -> "none"

\* group(1) of @([a-z0-9\-]+) matched inside one token
MentionOf(tok) ==
    CASE tok = "M_alpha" -> "alpha" [] tok = "M_beta" -> "beta"
      [] OTHER -> "none"

\* the registered-or-not project names that occur in a file name
NamesIn(stem) ==
    CASE stem = "alpha-memo" -> {"alpha"}
      [] stem = "beta-memo" -> {"beta"}
      [] stem = "alpha-beta" -> {"alpha", "beta"}
      [] OTHER -> {}

\* content = f.read(500)
RECURSIVE Read500(_)
Read500(text) ==
    IF text = <<>> THEN <<>>
    ELSE IF Head(text) = "pad" THEN <<>>
    ELSE <<Head(text)>> \o Read500(Tail(text))

\* re.search(r"[Pp]roject:\s*([a-z0-9\-]+)", content): the leftmost match
RECURSIVE FirstTag(_)
FirstTag(content) ==
    IF content = <<>> THEN "none"
    ELSE IF TagOf(Head(content)) # "none" THEN TagOf(Head(content))
    ELSE FirstTag(Tail(content))

\* re.search(r"@([a-z0-9\-]+)", content): the leftmost match
RECURSIVE FirstMention(_)
FirstMention(content) ==
    IF content = <<>> THEN "none"
    ELSE IF MentionOf(Head(content)) # "none" THEN MentionOf(Head(content))
    ELSE FirstMention(Tail(content))

\* for proj_name in self.cache.keys(): if proj_name in file_path.name
RECURSIVE FirstInName(_, _)
FirstInName(c, stem) ==
    IF c = <<>> THEN "none"
    ELSE IF Head(c) \in NamesIn(stem) THEN Head(c)
    ELSE FirstInName(Tail(c), stem)

\* ProjectRouter.detect_project ("none" is None); a file that is not text makes
\* read() raise, which the except clause turns into None
detect_project(f, file_path, c) ==
    IF file_path \notin DOMAIN f THEN "none"
    ELSE IF \E i \in 1..Len(f[file_path]) : f[file_path][i] = "bin"
    THEN "none"
    ELSE LET content == Read500(f[file_path])
             tag == FirstTag(content)
             mention == FirstMention(content)
         IN IF tag # "none" /\ tag \in Registered(c) THEN tag
            ELSE IF mention # "none" /\ mention \in Registered(c) THEN mention
            ELSE FirstInName(c, file_path.stem)

\* f"{stem}_{counter}{suffix}"
WithCounter(p, k) == [p EXCEPT !.n = p.n * 10 + k]

\* mutant of FreeRouted: the existing name is taken
FreeRoutedOverwrite(dir, p, k) == p

\* the loops of lines 70-77 and 85-91: the name itself, or the first
\* "<stem>_<counter><suffix>" that does not exist
RECURSIVE FreeRouted(_, _, _)
FreeRouted(dir, p, k) ==
    IF k = 0
    THEN IF p \in DOMAIN dir THEN FreeRouted(dir, p, 1) ELSE p
    ELSE IF WithCounter(p, k) \in DOMAIN dir
         THEN FreeRouted(dir, p, k + 1)
         ELSE WithCounter(p, k)

\* the file is gone from the directory
RemoveFile(f, q) == [p \in DOMAIN f \ {q} |-> f[p]]

\* mutant of MoveFile: the original is copied, not moved
MoveFileKeep(f, arch, spec_file, archived_path) ==
    [fs |-> f, archive |-> WriteFile(arch, archived_path, f[spec_file])]

\* shutil.move(str(spec_file), str(archived_path))
MoveFile(f, arch, spec_file, archived_path) ==
    [fs |-> RemoveFile(f, spec_file),
     archive |-> WriteFile(arch, archived_path, f[spec_file])]

\* what the "bd" command line does when it is run
CliReplies == {"created", "absent", "timeout", "nonzero"}

\* mutant of create: a time-out is not caught
create_raising(has_beads, cli) ==
    IF ~has_beads THEN [id |-> "none", raised |-> FALSE]
    ELSE IF cli = "created" THEN [id |-> "created", raised |-> FALSE]
    ELSE IF cli = "timeout" THEN [id |-> "none", raised |-> TRUE]
    ELSE [id |-> "none", raised |-> FALSE]

\* BeadCreator.create, called by _create_bead_for_spec on the copy: None
\* without a .beads directory, on a nonzero exit, on TimeoutExpired and on any
\* other exception (FileNotFoundError when the command is absent)
create(has_beads, cli) ==
    IF ~has_beads THEN [id |-> "none", raised |-> FALSE]
    ELSE IF cli = "created" THEN [id |-> "created", raised |-> FALSE]
    ELSE [id |-> "none", raised |-> FALSE]

\* what the source argument of RoutingProcessor.process may be ("unknown" is
\* its default)
Sources == {"gdrive", "slack", "unknown"}

\* no issue was requested
NoRequest ==
    [title |-> NoPath,
     description |-> [kind |-> "none", line |-> "", source |-> ""]]

\* f"Auto-generated from pigeon ({source})"
Fallback(source) == [kind |-> "auto", line |-> "", source |-> source]

\* first_line[:100]
Cut100(line) == [kind |-> "line", line |-> line, source |-> ""]

\* _create_bead_for_spec, lines 139-144: f.readline().strip(), cut to 100
\* characters; the fallback when the first line is empty or blank, when the
\* file is empty and when reading it raises (bytes that are not text)
Description(text, source) ==
    IF text = <<"bin">> \/ text = <<>> THEN Fallback(source)
    ELSE IF text[1] = "ws" THEN Fallback(source)
    ELSE Cut100(text[1])

\* _create_bead_for_spec, lines 136 and 147-152: the title is "Process inbox
\* item: " and spec_file.stem (the name without its extension)
BeadRequest(text, spec_file, source) ==
    [title |-> [spec_file EXCEPT !.ext = ""],
     description |-> Description(text, source)]

\* what the environment does to one routing call: an error in shutil.copy2 or
\* in shutil.move, or none; whether the target has a .beads directory; what
\* the command line answers
RouteEnvs ==
    {[fault |-> "copy", beads |-> FALSE, cli |-> "absent"],
     [fault |-> "move", beads |-> FALSE, cli |-> "absent"],
     [fault |-> "none", beads |-> FALSE, cli |-> "absent"]}
    \cup {[fault |-> "none", beads |-> TRUE, cli |-> r] : r \in CliReplies}

\* the result of a routing call that changed nothing
RouteNothing(f, arch, pin, project) ==
    [out |-> NoPath, fs |-> f, archive |-> arch, pinbox |-> pin,
     project |-> project, archived |-> NoPath, bead |-> "none"]

\* RoutingProcessor.process
RouteProcess(f, arch, pin, c, spec_file, env) ==
    IF spec_file \notin DOMAIN f THEN RouteNothing(f, arch, pin, "none")
    ELSE
    LET project_name == detect_project(f, spec_file, c)
        routed == project_name # "none" /\ project_name \in Registered(c)
        \* self.router.get_inbox_path(project_name)
        target_inbox == IF routed THEN pin[project_name] ELSE f
        target_spec_path == FreeRouted(target_inbox, spec_file, 0)
        copied == WriteFile(target_inbox, target_spec_path, f[spec_file])
        f1 == IF routed THEN f ELSE copied
        pin1 == IF routed THEN [pin EXCEPT ![project_name] = copied] ELSE pin
        archived_path == FreeRouted(arch, spec_file, 0)
        moved == MoveFile(f1, arch, spec_file, archived_path)
        bead == create(env.beads, env.cli)
    IN IF env.fault = "copy" THEN RouteNothing(f, arch, pin, project_name)
       ELSE IF env.fault = "move"
       THEN [out |-> NoPath, fs |-> f1, archive |-> arch, pinbox |-> pin1,
             project |-> project_name, archived |-> NoPath, bead |-> "none"]
       ELSE [out |-> IF bead.raised THEN NoPath ELSE target_spec_path,
             fs |-> moved.fs, archive |-> moved.archive, pinbox |-> pin1,
             project |-> project_name, archived |-> archived_path,
             bead |-> bead.id]

\* the files that arrive in the home inbox, and the paths the processors are
\* called on: an audio file, a text and a spec "memo-spec.md"
AudioPath == [stem |-> "memo", spec |-> 0, n |-> 0, ext |-> "MP3"]
TextPath == [stem |-> "memo", spec |-> 0, n |-> 0, ext |-> "txt"]
SpecPath == [stem |-> "memo", spec |-> 1, n |-> 0, ext |-> "md"]
StageInputs == {AudioPath, TextPath, SpecPath}

Arrivals ==
    {[path |-> AudioPath, content |-> <<"bin">>]}
    \cup {[path |-> TextPath, content |-> c] :
             c \in {<<>>, <<"ws">>, <<"T_alpha">>}}
    \cup {[path |-> SpecPath, content |-> c] :
             c \in {<<"pl">>, <<"T_alpha">>, <<"M_alpha">>, <<"M_beta">>}}

\* what the environment does to a direct STT or professionalizer call:
\* nothing, or an OSError from the file_path.exists() test (an I/O error inside
\* the try block is the "io" fault of Part II)
StageFaults == {"none", "raise"}

NoStage == [op |-> "none", input |-> NoPath, existed |-> FALSE,
            out |-> NoPath, raised |-> FALSE, project |-> "none",
            archived |-> NoPath, fault |-> "none", beads |-> FALSE,
            cli |-> "none", bead |-> "none", source |-> "none",
            request |-> NoRequest]

\* the registry the routing calls run over (SpecDetect runs detect_project
\* over every registry)
StageRegistries == {<<"alpha", "beta">>}

\* a router and a RoutingProcessor have been constructed over some registry;
\* the inboxes and the archive are empty
InitStageDirs ==
    /\ cache \in StageRegistries
    /\ archive = NoFiles
    /\ pinbox = [p \in Projects |-> NoFiles]
    /\ stage = NoStage

\* no RoutingProcessor in use
StageIdle ==
    /\ cache = <<>>
    /\ archive = NoFiles
    /\ pinbox = [p \in Projects |-> NoFiles]
    /\ stage = NoStage

\* a file arrives in the home inbox (a download, a message, a user's file)
Arrive ==
    /\ StageFrame
    /\ \E a \in Arrivals :
          /\ a.path \notin DOMAIN fs
          /\ fs' = WriteFile(fs, a.path, a.content)
    /\ stage' = NoStage
    /\ UNCHANGED <<calls, cache, archive, pinbox>>

\* one call STTProcessor().process(file_path)
STTCall ==
    /\ StageFrame
    /\ calls < MaxCalls
    /\ \E file_path \in StageInputs, fault \in StageFaults :
          LET r == STTProcess(fs, file_path, fault)
          IN /\ fs' = r.fs
             /\ stage' = [NoStage EXCEPT !.op = "stt", !.input = file_path,
                                         !.existed = file_path \in DOMAIN fs,
                                         !.out = r.out, !.raised = r.raised,
                                         !.fault = fault]
    /\ calls' = calls + 1
    /\ UNCHANGED <<cache, archive, pinbox>>

\* one call ProfessionalizerProcessor().process(file_path), Mellona absent
ProCall ==
    /\ StageFrame
    /\ calls < MaxCalls
    /\ \E file_path \in StageInputs, fault \in StageFaults :
          LET r == ProProcess(fs, file_path, fault, FALSE, "unused")
          IN /\ fs' = r.fs
             /\ stage' = [NoStage EXCEPT !.op = "professionalize",
                                         !.input = file_path,
                                         !.existed = file_path \in DOMAIN fs,
                                         !.out = r.out, !.raised = r.raised,
                                         !.fault = fault]
    /\ calls' = calls + 1
    /\ UNCHANGED <<cache, archive, pinbox>>

\* one call RoutingProcessor.process(spec_file)
RouteCall ==
    /\ StageFrame
    /\ calls < MaxCalls
    /\ \E spec_file \in StageInputs \cup DOMAIN fs, env \in RouteEnvs :
          LET r == RouteProcess(fs, archive, pinbox, cache, spec_file, env)
          IN /\ fs' = r.fs
             /\ archive' = r.archive
             /\ pinbox' = r.pinbox
             /\ stage' = [op |-> "route", input |-> spec_file,
                          existed |-> spec_file \in DOMAIN fs,
                          out |-> r.out, raised |-> FALSE,
                          project |-> r.project, archived |-> r.archived,
                          fault |-> env.fault, beads |-> env.beads,
                          cli |-> env.cli, bead |-> r.bead,
                          source |-> "unknown",
                          request |->
                              IF /\ spec_file \in DOMAIN fs
                                 /\ env.fault = "none" /\ env.beads
                              THEN BeadRequest(fs[spec_file], r.out, "unknown")
                              ELSE NoRequest]
    /\ calls' = calls + 1
    /\ UNCHANGED cache

NextStages ==
    \/ Arrive
    \/ STTCall
    \/ ProCall
    \/ RouteCall

(***************************************************************************)
(* _create_bead_for_spec on its own: one routed spec in a project's inbox, *)
(* its text a sequence of lines ("ws": an empty or blank line).            *)
(***************************************************************************)
\* longest text, in lines, of the routed spec
MaxLines == 2

BeadLines == {"ws", "pl", "T_alpha"}
BeadTexts ==
    {<<"bin">>} \cup UNION {[1..n -> BeadLines] : n \in 0..MaxLines}

\* one routed spec, memo-spec.md or memo-spec_1.md, in one project's inbox
InitBeadFiles ==
    /\ cache \in StageRegistries
    /\ archive = NoFiles
    /\ stage = NoStage
    /\ \E project \in Projects, k \in 0..1, text \in BeadTexts :
          pinbox = [p \in Projects |->
                       IF p = project
                       THEN WriteFile(NoFiles, [SpecPath EXCEPT !.n = k], text)
                       ELSE NoFiles]

\* one call _create_bead_for_spec(project_path, spec_file, source,
\* project_name) on a routed spec
BeadCall ==
    /\ StageFrame
    /\ calls < MaxCalls
    /\ \E project \in Projects, beads \in BOOLEAN, cli \in CliReplies,
          source \in Sources :
          \E spec_file \in DOMAIN pinbox[project] :
             stage' = [NoStage EXCEPT
                          !.op = "bead", !.input = spec_file,
                          !.existed = TRUE, !.project = project,
                          !.beads = beads, !.cli = cli,
                          !.bead = create(beads, cli).id,
                          !.source = source,
                          !.request =
                              IF beads
                              THEN BeadRequest(pinbox[project][spec_file],
                                               spec_file, source)
                              ELSE NoRequest]
    /\ calls' = calls + 1
    /\ UNCHANGED <<fs, cache, archive, pinbox>>

NextBead == BeadCall

(***************************************************************************)
(* detect_project on its own: one spec file and a registry, drawn from     *)
(* bounded sets.                                                           *)
(***************************************************************************)

\* longest text, in tokens, of the spec file given to detect_project
MaxText == 3

DetectTokens == {"T_alpha", "T_beta", "M_alpha", "M_beta", "pad"}
DetectTexts ==
    {<<"bin">>} \cup UNION {[1..n -> DetectTokens] : n \in 0..MaxText}
DetectPaths ==
    [stem : {"memo", "alpha-memo", "beta-memo", "alpha-beta"},
     spec : {1}, n : {0}, ext : {"md"}]

\* one spec file in the home inbox (or none) and a registry
InitDetectFiles ==
    /\ cache \in Registries
    /\ archive = NoFiles
    /\ pinbox = [p \in Projects |-> NoFiles]
    /\ stage = NoStage
    /\ fs \in {NoFiles}
              \cup {WriteFile(NoFiles, p, t) : p \in DetectPaths,
                                               t \in DetectTexts}
    /\ calls = 0

\* one call router.detect_project(file_path)
DetectCall ==
    /\ StageFrame
    /\ calls < MaxCalls
    /\ \E file_path \in DetectPaths :
          stage' = [NoStage EXCEPT
                       !.op = "detect", !.input = file_path,
                       !.existed = file_path \in DOMAIN fs,
                       !.project = detect_project(fs, file_path, cache)]
    /\ calls' = calls + 1
    /\ UNCHANGED <<fs, cache, archive, pinbox>>

NextDetect == DetectCall

(***************************************************************************)
(* Part IV: GoogleDriveSource                                              *)
(***************************************************************************)

\* self.folders, in list order
Folders == <<"/Voice Recordings", "/Text Input">>

\* the entries of a remote listing: an identifier and whether the mime type
\* is application/vnd.google-apps.folder
GEntries == [id : FileIds, mime : {"file", "folder"}]
GListings == UNION {[1..n -> GEntries] : n \in 0..MaxListing}

NoEntry == [id |-> "none", mime |-> "none"]

\* mutant of first_unprocessed: the processed set is not consulted
first_unprocessed_any(files, proc) ==
    IF \E i \in 1..Len(files) : files[i].mime # "folder"
    THEN files[CHOOSE i \in 1..Len(files) :
                   /\ files[i].mime # "folder"
                   /\ \A j \in 1..(i - 1) : files[j].mime = "folder"]
    ELSE NoEntry

\* the loop of _poll_folder (lines 94-107): the first entry that is not a
\* folder and whose identifier is not in self._processed_files
RECURSIVE first_unprocessed(_, _)
first_unprocessed(files, proc) ==
    IF files = <<>> THEN NoEntry
    ELSE IF Head(files).mime = "folder"
    THEN first_unprocessed(Tail(files), proc)
    ELSE IF Head(files).id \in proc
    THEN first_unprocessed(Tail(files), proc)
    ELSE Head(files)

\* mutant of _download_and_track: the identifier is marked before the download
track_before_download(proc, id, ok) ==
    [processed |-> proc \cup {id},
     returned |-> IF ok THEN id ELSE "none"]

\* _download_and_track: download_file, then self._processed_files.add; None
\* when download_file raises
_download_and_track(proc, id, ok) ==
    [processed |-> IF ok THEN proc \cup {id} ELSE proc,
     returned |-> IF ok THEN id ELSE "none"]

\* nothing is known of any poll() call
NoPoll == [requests |-> <<>>, later |-> 0, listing |-> <<>>,
           failed |-> {}, result |-> "none"]

\* a source that has been constructed
InitGDrive ==
    /\ g_running = FALSE
    /\ processed = {}
    /\ gpc = "idle"
    /\ folder = 1
    /\ poll = NoPoll
    /\ completed = {}
    /\ everFailed = {}

\* GoogleDriveSource.start up to the loop: self._running = True
GStart ==
    /\ GDriveFrame
    /\ gpc = "idle"
    /\ ~g_running
    /\ g_running' = TRUE
    /\ UNCHANGED <<processed, gpc, folder, poll, completed, everFailed>>

\* GoogleDriveSource.stop (from the loop's owner; poll() reads the flag only
\* at its top)
GStop ==
    /\ GDriveFrame
    /\ g_running
    /\ g_running' = FALSE
    /\ UNCHANGED <<processed, gpc, folder, poll, completed, everFailed>>

\* mutant of PollIdle: poll() does not look at the flag
PollIdleScans ==
    /\ GDriveFrame
    /\ gpc = "idle"
    /\ ~g_running
    /\ gpc' = "scan"
    /\ folder' = 1
    /\ poll' = NoPoll
    /\ UNCHANGED <<g_running, processed, completed, everFailed>>

\* poll() called while not running: None
PollIdle ==
    /\ GDriveFrame
    /\ gpc = "idle"
    /\ ~g_running
    /\ poll' = NoPoll
    /\ UNCHANGED <<g_running, processed, gpc, folder, completed, everFailed>>

\* poll() called while running: the loop over self.folders begins
PollEnter ==
    /\ GDriveFrame
    /\ gpc = "idle"
    /\ g_running
    /\ gpc' = "scan"
    /\ folder' = 1
    /\ poll' = NoPoll
    /\ UNCHANGED <<g_running, processed, completed, everFailed>>

\* _poll_folder: list_folder_files raises, which the except clause logs
PollListRaises ==
    /\ GDriveFrame
    /\ gpc = "scan"
    /\ folder <= Len(Folders)
    /\ folder' = folder + 1
    /\ poll' = [poll EXCEPT
                   !.later = IF poll.requests # <<>> THEN @ + 1 ELSE @,
                   !.listing = <<>>]
    /\ UNCHANGED <<g_running, processed, gpc, completed, everFailed>>

\* _poll_folder on one listing: nothing new, or one download that completes
\* (poll returns the SourceFile) or raises (poll goes on to the next folder)
PollFolder ==
    /\ GDriveFrame
    /\ gpc = "scan"
    /\ folder <= Len(Folders)
    /\ \E files \in GListings, ok \in BOOLEAN :
          LET file_info == first_unprocessed(files, processed)
              r == _download_and_track(processed, file_info.id, ok)
              seen == [poll EXCEPT
                          !.later = IF poll.requests # <<>> THEN @ + 1 ELSE @,
                          !.listing = files]
          IN IF file_info = NoEntry
             THEN /\ ok
                  /\ folder' = folder + 1
                  /\ poll' = seen
                  /\ UNCHANGED <<processed, gpc, completed, everFailed>>
             ELSE /\ processed' = r.processed
                  /\ completed' = IF ok THEN completed \cup {file_info.id}
                                  ELSE completed
                  /\ everFailed' = IF ok THEN everFailed
                                   ELSE everFailed \cup {file_info.id}
                  /\ poll' = [seen EXCEPT
                                 !.requests = Append(@, file_info),
                                 !.failed = IF ok THEN @
                                            ELSE @ \cup {file_info.id},
                                 !.result = r.returned]
                  /\ IF r.returned # "none"
                     THEN gpc' = "idle" /\ folder' = folder
                     ELSE gpc' = gpc /\ folder' = folder + 1
    /\ UNCHANGED g_running

\* every folder has been visited: poll() returns None
PollEnd ==
    /\ GDriveFrame
    /\ gpc = "scan"
    /\ folder > Len(Folders)
    /\ gpc' = "idle"
    /\ UNCHANGED <<g_running, processed, folder, poll, completed, everFailed>>

NextGDrive ==
    \/ GStart
    \/ GStop
    \/ PollIdle
    \/ PollEnter
    \/ PollListRaises
    \/ PollFolder
    \/ PollEnd

\* the steps of the thread that calls poll() again and again on a started
\* source
GPolling ==
    \/ PollEnter
    \/ PollListRaises
    \/ PollFolder
    \/ PollEnd

\* a source that is started once and never stopped
NextGDrivePolled ==
    \/ GStart
    \/ GPolling

\* ---- the process is started again --------------------------------------------
\* the durable state mappings an earlier run of the Poller can have saved
DurableStates == {Snapshot(st) : st \in SUBSET Entries}

\* no Poller process, and the state file an earlier run has left
InitDurable ==
    /\ pc = "absent"
    /\ running = FALSE
    /\ state = {}
    /\ queue = <<>>
    /\ savePc = "none"
    /\ stateFile \in DurableStates
    /\ tmpFile = Absent
    /\ inbox = {}
    /\ now = 0
    /\ cycles = 0
    /\ boots = 0
    /\ signals = 0
    /\ dlNow = "none"
    /\ listed = {}
    /\ everRecorded = {}
    /\ bootRecorded = {}
    /\ startKeys = {}
    /\ startFile = {}
    /\ startEver = {}
    /\ startBoot = {}
    /\ lastSave = "none"

\* the process ends and a new one constructs the source
\* (GoogleDriveSource.__init__, lines 38-47): the flag is off and the
\* processed set is empty; nothing is read from the disk
GRestart ==
    /\ GDriveFrame
    /\ g_running' = FALSE
    /\ processed' = {}
    /\ gpc' = "idle"
    /\ folder' = 1
    /\ poll' = NoPoll
    /\ UNCHANGED <<completed, everFailed>>

NextGDriveRestart ==
    \/ NextGDrive
    \/ GRestart

\* ---- _download_and_track called directly, with the inbox it writes to -------
\* seconds the clock may advance between the calls
MaxSeconds == 2

\* lines 129-130: file_path = self.inbox_dir / create_timestamped_filename(
\* original_name); the path is the second of the clock and the name, and no
\* counter is ever appended to it
TrackedPath(ts, name) == [ts |-> ts, name |-> name, n |-> 0]

\* _download_and_track(file_info, folder_path) for a file that is not marked
\* processed (the only files _poll_folder passes).  outcome: "ok"; "fail"
\* (download_file raises before the destination is opened); "partial" (it
\* raises after io.FileIO created or truncated the destination)
GDownload ==
    /\ \E id \in FileIds \ processed, name \in Names,
          outcome \in {"ok", "fail", "partial"} :
          LET r == _download_and_track(processed, id, outcome = "ok")
          IN /\ processed' = r.processed
             /\ inbox' = IF outcome = "fail" THEN inbox
                         ELSE inbox \cup {TrackedPath(now, name)}
             /\ completed' = IF outcome = "ok" THEN completed \cup {id}
                             ELSE completed
             /\ everFailed' = IF outcome = "ok" THEN everFailed
                              ELSE everFailed \cup {id}
    /\ UNCHANGED <<pc, running, state, queue, savePc, stateFile, tmpFile, now,
                   cycles, boots, signals, dlNow, listed, everRecorded,
                   bootRecorded, startKeys, startFile, startEver, startBoot,
                   lastSave, g_running, gpc, folder, poll, pipeVars,
                   stageVars, utilVars, slackVars, loopVars, raceVars>>

\* a second passes between two calls
GSecond ==
    /\ now < MaxSeconds
    /\ now' = now + 1
    /\ UNCHANGED <<pc, running, state, queue, savePc, stateFile, tmpFile,
                   inbox, cycles, boots, signals, dlNow, listed, everRecorded,
                   bootRecorded, startKeys, startFile, startEver, startBoot,
                   lastSave, gdriveVars, pipeVars, stageVars, utilVars,
                   slackVars, loopVars, raceVars>>

NextGDownload == GDownload \/ GSecond

(***************************************************************************)
(* Part V: sanitize_filename                                               *)
(*                                                                         *)
(* A file name is the sequence of its characters.  "a" stands for the      *)
(* letters and "(" for the characters of the deleted set other than "/",   *)
(* which is also the separator os.path.splitext looks for.                 *)
(***************************************************************************)
\* longest file name given to sanitize_filename
MaxName == 4
\* sanitize_filename calls made on one name, each on the result of the last
MaxPasses == 2

NameChars == {"a", " ", ".", "/", "("}
FileNames == UNION {[1..n -> NameChars] : n \in 0..MaxName}

\* p.rfind(ch) + 1: the position of the last ch in p, 0 when there is none
RFind(p, ch) ==
    IF \E i \in 1..Len(p) : p[i] = ch
    THEN CHOOSE i \in 1..Len(p) :
             p[i] = ch /\ \A j \in (i + 1)..Len(p) : p[j] # ch
    ELSE 0

\* os.path.splitext(original): the extension begins at the last dot that
\* comes after the last "/" and after a character of the base name that is
\* not a dot; without such a dot the extension is empty
splitext(p) ==
    LET sepIndex == RFind(p, "/")
        dotIndex == RFind(p, ".")
    IN IF /\ dotIndex > sepIndex
          /\ \E i \in (sepIndex + 1)..(dotIndex - 1) : p[i] # "."
       THEN [name |-> SubSeq(p, 1, dotIndex - 1),
             ext |-> SubSeq(p, dotIndex, Len(p))]
       ELSE [name |-> p, ext |-> <<>>]

\* the characters of the class [<>:"/\\|?*()] in NameChars
Deleted == {"/", "("}

\* name.replace(" ", "-") followed by re.sub(r'[<>:"/\\|?*()]', '', name)
RECURSIVE CleanName(_)
CleanName(name) ==
    IF name = <<>> THEN <<>>
    ELSE IF Head(name) = " " THEN <<"-">> \o CleanName(Tail(name))
    ELSE IF Head(name) \in Deleted THEN CleanName(Tail(name))
    ELSE <<Head(name)>> \o CleanName(Tail(name))

\* sanitize_filename: return name + ext, the extension being left as it is
sanitize_filename(original) ==
    LET parts == splitext(original)
    IN CleanName(parts.name) \o parts.ext

\* no name has been sanitized
SanIdle == san = [original |-> <<>>, prev |-> <<>>, name |-> <<>>, calls |-> 0]

\* a file name, not sanitized yet
InitSanitize ==
    \E s \in FileNames :
        san = [original |-> s, prev |-> s, name |-> s, calls |-> 0]

\* sanitize_filename is called on the name the last call returned
SanitizeCall ==
    /\ UtilFrame
    /\ san.calls < MaxPasses
    /\ san' = [san EXCEPT !.prev = san.name,
                          !.name = sanitize_filename(san.name),
                          !.calls = @ + 1]
    /\ UNCHANGED disc

NextSanitize == SanitizeCall

(***************************************************************************)
(* Part VI: SubmoduleDiscoverer and the construction of ProjectRouter      *)
(*                                                                         *)
(* The repository on disk: .gitmodules (absent, unreadable, or the blocks  *)
(* its parse yields, each with or without a "path =" line, the path being  *)
(* modules/<name>); the entry "modules" (absent, a regular file, or a      *)
(* directory); and for every project the directory modules/<name>:         *)
(*   "missing"    no such directory                                        *)
(*   "plain"      a directory without an entry named .beads                *)
(*   "beadsfile"  a directory holding a regular file named .beads          *)
(*   "beads"      a directory holding a directory named .beads             *)
(***************************************************************************)
\* [submodule "..."] blocks in .gitmodules
MaxBlocks == 2

GitBlocks == [name : Projects, path : BOOLEAN]
GitmoduleFiles ==
    {[kind |-> k, blocks |-> <<>>] : k \in {"absent", "unreadable"}}
    \cup {[kind |-> "file", blocks |-> b] :
            b \in UNION {[1..n -> GitBlocks] : n \in 0..MaxBlocks}}

DirKinds == {"missing", "plain", "beadsfile", "beads"}

\* the order in which modules_dir.iterdir() yields the project directories
ModuleOrders == {<<"alpha", "beta">>, <<"beta", "alpha">>}

\* the names held by a sequence of names
NamesOf(names) == {names[i] : i \in 1..Len(names)}

\* mutant of DiscoverBlocks: absolute_path.is_dir() is not tested
DiscoverBlocksUnchecked(blocks, dirs) ==
    [i \in 1..Len(blocks) |->
        [name |-> blocks[i].name, has_beads |-> dirs[blocks[i].name] = "beads"]]

\* the loop of _discover (lines 59-91): a block without a path line and a
\* block whose directory does not exist are skipped; self.cache[name] of a
\* name seen before keeps its place
RECURSIVE DiscoverBlocks(_, _)
DiscoverBlocks(blocks, dirs) ==
    IF blocks = <<>> THEN <<>>
    ELSE LET b == blocks[Len(blocks)]
             before == DiscoverBlocks(SubSeq(blocks, 1, Len(blocks) - 1), dirs)
         IN IF ~b.path THEN before
            ELSE IF dirs[b.name] = "missing" THEN before
            ELSE IF \E i \in 1..Len(before) : before[i].name = b.name
            THEN before
            ELSE Append(before, [name |-> b.name,
                                 has_beads |-> dirs[b.name] = "beads"])

\* SubmoduleDiscoverer._discover: the cache, in insertion order; empty when
\* .gitmodules does not exist or cannot be read
_discover(gm, dirs) ==
    IF gm.kind = "absent" THEN <<>>
    ELSE IF gm.kind = "unreadable" THEN <<>>
    ELSE DiscoverBlocks(gm.blocks, dirs)

HasBeads(s) == s.has_beads

\* mutant of get_submodules: with_beads is ignored
get_submodules_all(submodules) == submodules

\* SubmoduleDiscoverer.get_submodules(with_beads=True)
get_submodules(submodules) == SelectSeq(submodules, HasBeads)

\* the fallback loop of _discover_projects (lines 44-49): a directory with an
\* entry named .beads is added unless its name is in the cache
RECURSIVE ScanModules(_, _, _)
ScanModules(order, dirs, acc) ==
    IF order = <<>> THEN acc
    ELSE LET project_name == Head(order)
         IN IF /\ dirs[project_name] \in {"beadsfile", "beads"}
               /\ project_name \notin NamesOf(acc)
            THEN ScanModules(Tail(order), dirs, Append(acc, project_name))
            ELSE ScanModules(Tail(order), dirs, acc)

\* ProjectRouter._discover_projects: the submodules with a .beads directory,
\* then the scan of modules/ when it exists; iterdir() raises
\* NotADirectoryError when "modules" is a regular file
_discover_projects(submodules, modules, dirs, order) ==
    LET with_beads == get_submodules(submodules)
        first == [i \in 1..Len(with_beads) |-> with_beads[i].name]
    IN IF modules = "absent" THEN [cache |-> first, raised |-> FALSE]
       ELSE IF modules = "file" THEN [cache |-> first, raised |-> TRUE]
       ELSE [cache |-> ScanModules(order, dirs, first), raised |-> FALSE]

\* no routing call has been made on the registry
NoRoute == [tag |-> "none", project |-> "none", copied |-> FALSE,
            kind |-> "missing", marker |-> FALSE, bead |-> "none",
            out |-> NoPath]

\* no repository and no router
DiscIdle ==
    disc = [gm |-> [kind |-> "absent", blocks |-> <<>>], modules |-> "absent",
            dirs |-> [p \in Projects |-> "missing"], built |-> FALSE,
            raised |-> FALSE, submodules |-> <<>>, registry |-> <<>>,
            atBuild |-> [p \in Projects |-> "missing"], route |-> NoRoute]

\* a repository on disk and no router yet; the project directories exist only
\* inside a directory "modules"
InitRegistry ==
    \E gm \in GitmoduleFiles, modules \in {"absent", "file", "dir"},
       dirs \in [Projects -> DirKinds] :
        /\ modules # "dir" => dirs = [p \in Projects |-> "missing"]
        /\ disc = [gm |-> gm, modules |-> modules, dirs |-> dirs,
                   built |-> FALSE, raised |-> FALSE, submodules |-> <<>>,
                   registry |-> <<>>,
                   atBuild |-> [p \in Projects |-> "missing"],
                   route |-> NoRoute]

\* ProjectRouter.__init__: SubmoduleDiscoverer(root), then _discover_projects
RouterInit ==
    /\ UtilFrame
    /\ ~disc.built
    /\ \E order \in ModuleOrders :
          LET submodules == _discover(disc.gm, disc.dirs)
              r == _discover_projects(submodules, disc.modules, disc.dirs,
                                      order)
          IN disc' = [disc EXCEPT !.built = TRUE, !.raised = r.raised,
                                  !.submodules = submodules,
                                  !.registry = r.cache,
                                  !.atBuild = disc.dirs]
    /\ UNCHANGED san

\* after the router is built, the .beads entry of a project is removed
MarkerRemoved ==
    /\ UtilFrame
    /\ disc.built
    /\ ~disc.raised
    /\ \E p \in Projects :
          /\ disc.dirs[p] \in {"beadsfile", "beads"}
          /\ disc' = [disc EXCEPT !.dirs[p] = "plain"]
    /\ UNCHANGED san

\* RoutingProcessor.process on a spec "memo-spec.md" that names project tag in
\* its first line, with the registry the router built; the inboxes and the
\* archive are empty, copy2 and move succeed, and the target has a .beads
\* entry or not as the disk says (the home repository has none)
RegistryRoute ==
    /\ UtilFrame
    /\ disc.built
    /\ ~disc.raised
    /\ \E tag \in Projects, cli \in CliReplies :
          LET f == [p \in {SpecPath} |->
                       <<IF tag = "alpha" THEN "T_alpha" ELSE "T_beta">>]
              pin == [p \in Projects |-> NoFiles]
              project_name == detect_project(f, SpecPath, disc.registry)
              kind == IF project_name \in Projects
                      THEN disc.dirs[project_name] ELSE "missing"
              marker == kind \in {"beadsfile", "beads"}
              env == [fault |-> "none", beads |-> marker, cli |-> cli]
          IN \E r \in {RouteProcess(f, NoFiles, pin, disc.registry, SpecPath,
                                    env)} :
                disc' = [disc EXCEPT !.route =
                            [tag |-> tag, project |-> r.project,
                             copied |-> /\ r.project \in Projects
                                        /\ r.out \in
                                              DOMAIN r.pinbox[r.project],
                             kind |-> kind, marker |-> marker,
                             bead |-> r.bead, out |-> r.out]]
    /\ UNCHANGED san

NextRegistry ==
    \/ RouterInit
    \/ MarkerRemoved
    \/ RegistryRoute

(***************************************************************************)
(* Part VII: SlackSource                                                   *)
(*                                                                         *)
(* A message is [ts, user, thread, text]: ts its timestamp (a positive     *)
(* integer; 0 is the "0" the source starts from); user the author          *)
(* identifier ("none": no "user" key, or an empty one; "B1" begins with    *)
(* "B"); thread "absent" (no thread_ts), "self" (thread_ts = ts) or        *)
(* "other"; text "empty", "ws" (whitespace only) or "hello".               *)
(***************************************************************************)
\* messages posted to the monitored channels over the whole run
MaxPosts == 2

Users == {"U1", "U2", "B1"}
Threads == {"absent", "self", "other"}
Texts == {"empty", "ws", "hello"}

\* config.authorized_user_ids of the source that polls: a bot identifier is
\* listed next to a person's
authorized_user_ids == {"U1", "B1"}

\* config.channels resolved by _resolve_channel_ids: every channel, only the
\* one given by identifier (the name was not found), or none (the listing
\* failed)
ResolveOutcomes == {<<"C1", "C2">>, <<"C1">>, <<>>}
ChannelIds == {"C1", "C2"}

\* the name of the file a message is written to:
\* f"{safe_timestamp}-slack-{sanitized_user}.md"
NoFile == [ts |-> 0, user |-> "none"]
MessageFile(message) == [ts |-> message.ts, user |-> message.user]

\* user_id.startswith("B")
IsBot(user_id) == user_id = "B1"

\* mutant of _is_authorized: the prefix is not looked at
is_authorized_listed(user_id, authorized) == user_id \in authorized

\* SlackSource._is_authorized
_is_authorized(user_id, authorized) ==
    IF IsBot(user_id) THEN FALSE ELSE user_id \in authorized

\* SlackSource._message_to_file: the file that is returned (NoFile for None),
\* whether a file was written, and the author whose name was looked up;
\* write_fails: file_path.write_text raises OSError
_message_to_file(message, authorized, write_fails) ==
    LET none == [file |-> NoFile, wrote |-> FALSE, lookup |-> "none"]
    IN IF message.user = "none" THEN none
       ELSE IF ~_is_authorized(message.user, authorized) THEN none
       ELSE IF message.thread = "other" THEN none
       ELSE IF message.text \in {"empty", "ws"} THEN none
       ELSE IF write_fails
       THEN [file |-> NoFile, wrote |-> FALSE, lookup |-> message.user]
       ELSE [file |-> MessageFile(message), wrote |-> TRUE,
             lookup |-> message.user]

\* ---- one _message_to_file call on its own ---------------------------------
AllMessages == [ts : {1}, user : Users \cup {"none"}, thread : Threads,
                text : Texts]

NoConv == [message |-> [ts |-> 0, user |-> "none", thread |-> "absent",
                        text |-> "empty"],
           authorized |-> {}, called |-> FALSE, write_fails |-> FALSE,
           file |-> NoFile, wrote |-> FALSE]

\* a message and a set of authorized users
InitConv ==
    \E message \in AllMessages, authorized \in SUBSET Users :
        conv = [NoConv EXCEPT !.message = message, !.authorized = authorized]

\* _message_to_file is called on the message
ConvCall ==
    /\ SlackFrame
    /\ ~conv.called
    /\ \E write_fails \in BOOLEAN :
          LET r == _message_to_file(conv.message, conv.authorized, write_fails)
          IN conv' = [conv EXCEPT !.called = TRUE,
                                  !.write_fails = write_fails,
                                  !.file = r.file, !.wrote = r.wrote]
    /\ UNCHANGED <<s_running, last_message_ts, user_cache, info_calls, s_inbox,
                   remote, spc, schan, slk>>

NextConv == ConvCall

\* ---- the source and the channels --------------------------------------------
\* the messages posted to the channels: one that passes the filters, one by
\* the listed bot, and a reply inside a thread
PostedShapes ==
    {[user |-> "U1", thread |-> "absent", text |-> "hello"],
     [user |-> "B1", thread |-> "absent", text |-> "hello"],
     [user |-> "U1", thread |-> "other", text |-> "hello"]}

\* messages[i]["ts"] for every message of a list
TsOf(messages) == {messages[i].ts : i \in 1..Len(messages)}

\* a list in the opposite order
Reversed(s) == [i \in 1..Len(s) |-> s[Len(s) + 1 - i]]

\* what conversations_history(channel, oldest, limit=100) answers: the
\* messages of the channel later than oldest, the most recent first (posted
\* holds them in the order of posting; fewer than 100 are ever posted)
RECURSIVE History(_, _)
History(posted, oldest) ==
    IF posted = <<>> THEN <<>>
    ELSE IF Head(posted).ts > oldest
    THEN Append(History(Tail(posted), oldest), Head(posted))
    ELSE History(Tail(posted), oldest)

\* mutant of newest_ts: the last message of the list is taken
newest_ts_last(messages) == messages[Len(messages)].ts

\* messages[0]["ts"]
newest_ts(messages) == messages[1].ts

\* what the API does to one conversations_history call
FetchOutcomes == {"ok", "not_ok", "api_error", "raise"}

\* SlackSource._get_channel_messages on entry i of _last_message_ts: the
\* messages and the updated mapping; a response that is not ok and a
\* SlackApiError give no messages, any other exception leaves the method
_get_channel_messages(lmt, i, posted, outcome) ==
    LET oldest == lmt[i].ts
        messages == IF outcome = "ok" THEN History(posted, oldest) ELSE <<>>
    IN [messages |-> messages,
        oldest |-> oldest,
        raised |-> outcome = "raise",
        lmt |-> IF messages # <<>>
                THEN [lmt EXCEPT ![i].ts = newest_ts(messages)]
                ELSE lmt]

\* the loop of poll() over reversed(messages) (lines 290-297), given the
\* messages oldest first: the first file _message_to_file returns ends it
RECURSIVE ConvertAll(_, _, _, _)
ConvertAll(messages, failing, files, looked) ==
    IF messages = <<>>
    THEN [file |-> NoFile, files |-> files, looked |-> looked, left |-> <<>>]
    ELSE LET r == _message_to_file(Head(messages), authorized_user_ids,
                                   Head(messages).ts \in failing)
             looked1 == IF r.lookup = "none" THEN looked
                        ELSE looked \cup {r.lookup}
         IN IF r.file # NoFile
            THEN [file |-> r.file, files |-> files \cup {r.file},
                  looked |-> looked1, left |-> Tail(messages)]
            ELSE ConvertAll(Tail(messages), failing, files, looked1)

\* nothing is known of any poll() call
NoSlackPoll == [declined |-> FALSE, fetched |-> FALSE, channel |-> "none",
                oldest |-> 0,
                before |-> 0, outcome |-> "none", got |-> {}, newest |-> 0,
                wrote |-> {}, result |-> NoFile,
                raised |-> FALSE]

\* no conversion in progress
ConvIdle == conv = NoConv

\* a source that has been constructed, and channels without messages
InitSlack ==
    /\ s_running = FALSE
    /\ last_message_ts = <<>>
    /\ user_cache = {}
    /\ info_calls = [u \in Users |-> 0]
    /\ s_inbox = {}
    /\ remote = [c \in ChannelIds |-> <<>>]
    /\ spc = "idle"
    /\ schan = 1
    /\ slk = NoSlackPoll

\* the messages posted so far
Posted == UNION {TsOf(remote[c]) : c \in ChannelIds}

\* somebody posts a message to a channel; timestamps grow
Post ==
    /\ SlackFrame
    /\ Cardinality(Posted) < MaxPosts
    /\ \E c \in ChannelIds, shape \in PostedShapes :
          remote' = [remote EXCEPT ![c] =
                        Append(@, [ts |-> Cardinality(Posted) + 1,
                                   user |-> shape.user,
                                   thread |-> shape.thread,
                                   text |-> shape.text])]
    /\ UNCHANGED <<s_running, last_message_ts, user_cache, info_calls, s_inbox,
                   spc, schan, slk, conv>>

\* SlackSource.start up to the loop: self._running = True
SStart ==
    /\ SlackFrame
    /\ spc = "idle"
    /\ ~s_running
    /\ s_running' = TRUE
    /\ UNCHANGED <<last_message_ts, user_cache, info_calls, s_inbox, remote,
                   spc, schan, slk, conv>>

\* SlackSource.stop (poll() reads the flag only at its top)
SStop ==
    /\ SlackFrame
    /\ s_running
    /\ s_running' = FALSE
    /\ UNCHANGED <<last_message_ts, user_cache, info_calls, s_inbox, remote,
                   spc, schan, slk, conv>>

\* poll() called while not running: None
SPollIdle ==
    /\ SlackFrame
    /\ spc = "idle"
    /\ ~s_running
    /\ slk' = [NoSlackPoll EXCEPT !.declined = TRUE]
    /\ UNCHANGED <<s_running, last_message_ts, user_cache, info_calls, s_inbox,
                   remote, spc, schan, conv>>

\* poll(), lines 279-286: the channels are resolved when _last_message_ts is
\* empty, and the loop over its keys begins
SPollBegin ==
    /\ IF last_message_ts = <<>>
       THEN \E channel_ids \in ResolveOutcomes :
               last_message_ts' =
                   [i \in 1..Len(channel_ids) |->
                       [channel |-> channel_ids[i], ts |-> 0]]
       ELSE UNCHANGED last_message_ts
    /\ spc' = "scan"
    /\ schan' = 1
    /\ slk' = NoSlackPoll

\* poll() called while running
SPollEnter ==
    /\ SlackFrame
    /\ spc = "idle"
    /\ s_running
    /\ SPollBegin
    /\ UNCHANGED <<s_running, user_cache, info_calls, s_inbox, remote, conv>>

\* one more users_info call for an author; the count stops at MaxInfoCalls.
\* A poll that looks an uncached author up is counted as one call, the first
\* of those it makes.
MaxInfoCalls == 2

Called(n) == IF n < MaxInfoCalls THEN n + 1 ELSE n

\* poll(), lines 287-297, for one channel: the fetch, then the messages oldest
\* first until one becomes a file.  failing: the messages whose file cannot be
\* written; users_ok: whether users_info answers
SPollChannel ==
    /\ SlackFrame
    /\ spc = "scan"
    /\ schan <= Len(last_message_ts)
    /\ \E outcome \in FetchOutcomes, users_ok \in BOOLEAN :
       \E failing \in SUBSET TsOf(remote[last_message_ts[schan].channel]) :
          LET channel_id == last_message_ts[schan].channel
              g == _get_channel_messages(last_message_ts, schan,
                                         remote[channel_id], outcome)
              r == ConvertAll(Reversed(g.messages), failing, s_inbox, {})
              seen == [slk EXCEPT
                          !.fetched = TRUE, !.channel = channel_id,
                          !.oldest = g.oldest,
                          !.before = last_message_ts[schan].ts,
                          !.outcome = outcome, !.got = TsOf(g.messages),
                          !.newest = IF g.messages = <<>> THEN 0
                                     ELSE g.messages[1].ts,
                          !.wrote = r.files \ s_inbox,
                          !.result = r.file, !.raised = g.raised]
          IN /\ failing \subseteq TsOf(g.messages)
             /\ (r.looked \subseteq user_cache => users_ok)
             /\ last_message_ts' = g.lmt
             /\ s_inbox' = r.files
             /\ user_cache' = IF users_ok THEN user_cache \cup r.looked
                              ELSE user_cache
             /\ info_calls' = [u \in Users |->
                                 IF u \in r.looked \ user_cache
                                 THEN Called(info_calls[u])
                                 ELSE info_calls[u]]
             /\ slk' = seen
             /\ IF g.raised \/ r.file # NoFile
                THEN spc' = "idle" /\ schan' = schan
                ELSE spc' = spc /\ schan' = schan + 1
    /\ UNCHANGED <<s_running, remote, conv>>

\* every channel has been visited: poll() returns None
SPollEnd ==
    /\ SlackFrame
    /\ spc = "scan"
    /\ schan > Len(last_message_ts)
    /\ spc' = "idle"
    /\ UNCHANGED <<s_running, last_message_ts, user_cache, info_calls, s_inbox,
                   remote, schan, slk, conv>>

NextSlack ==
    \/ Post
    \/ SStart
    \/ SStop
    \/ SPollIdle
    \/ SPollEnter
    \/ SPollChannel
    \/ SPollEnd

(***************************************************************************)
(* Part VIII: the start() loops                                            *)
(*                                                                         *)
(* loop.src is the object this process runs ("poller", "gdrive", "slack"); *)
(* for a source, loop.at is the position of its start() call:              *)
(*   "none"   not called          "test"  at "while self._running"         *)
(*   "call"   about to call poll  "poll"  inside poll()                    *)
(*   "sleep"  in time.sleep       "returned"                               *)
(* loop.stopped the position at which stop() was last called by another    *)
(* thread ("none": not called), and loop.fresh whether the poll() call in  *)
(* progress had made no remote call at that moment.  The Poller's position *)
(* is pc.                                                                  *)
(***************************************************************************)

\* in the behaviours of the start() loops: poll cycles a Poller begins, files
\* a folder of the Drive source lists, and messages posted before a Slack
\* source is started
MaxLoopCycles == 1
MaxLoopListing == 1
MaxLoopPosts == 1

\* no start() call of a source is in progress
LoopIdle ==
    loop = [src |-> "none", at |-> "none", stopped |-> "none", fresh |-> FALSE]

\* what the steps of a source's start() leave alone
LoopFrame == UNCHANGED <<pollerVars, pipeVars, stageVars, utilVars, raceVars>>

InLoop == loop.at \in {"test", "call", "poll", "sleep"}

\* ---- direct poll() calls on one of the sources -------------------------------
InitSources ==
    \E src \in {"gdrive", "slack"} :
        loop = [src |-> src, at |-> "none", stopped |-> "none",
                fresh |-> FALSE]

NextSources ==
    \/ loop.src = "gdrive" /\ NextGDrive
    \/ loop.src = "slack" /\ NextSlack

\* ---- GoogleDriveSource.start ---------------------------------------------------
\* start(), lines 174-175: self._running = True
GLoopStart ==
    /\ LoopFrame
    /\ loop.src = "gdrive"
    /\ loop.at = "none"
    /\ g_running' = TRUE
    /\ loop' = [loop EXCEPT !.at = "test"]
    /\ UNCHANGED <<processed, gpc, folder, poll, completed, everFailed,
                   slackVars>>

\* start(), line 178: while self._running
GLoopTest ==
    /\ LoopFrame
    /\ loop.src = "gdrive"
    /\ loop.at = "test"
    /\ loop' = [loop EXCEPT !.at = IF g_running THEN "call" ELSE "returned"]
    /\ UNCHANGED <<gdriveVars, slackVars>>

\* mutant of GLoopCall: poll() does not look at the flag
GLoopCallUnchecked ==
    /\ LoopFrame
    /\ loop.src = "gdrive"
    /\ loop.at = "call"
    /\ gpc' = "scan"
    /\ folder' = 1
    /\ poll' = NoPoll
    /\ loop' = [loop EXCEPT !.at = "poll"]
    /\ UNCHANGED <<g_running, processed, completed, everFailed, slackVars>>

\* start(), line 179, and poll(), lines 65-69: poll() is called; it returns
\* None at once when the flag is off, and begins the loop over the folders
\* otherwise
GLoopCall ==
    /\ LoopFrame
    /\ loop.src = "gdrive"
    /\ loop.at = "call"
    /\ IF g_running
       THEN /\ gpc' = "scan"
            /\ folder' = 1
            /\ poll' = NoPoll
            /\ loop' = [loop EXCEPT !.at = "poll"]
       ELSE /\ poll' = NoPoll
            /\ loop' = [loop EXCEPT !.at = "sleep"]
            /\ UNCHANGED <<gpc, folder>>
    /\ UNCHANGED <<g_running, processed, completed, everFailed, slackVars>>

\* poll() has returned; start(), line 180: time.sleep begins
GLoopSleep ==
    /\ LoopFrame
    /\ loop.src = "gdrive"
    /\ loop.at = "poll"
    /\ gpc = "idle"
    /\ loop' = [loop EXCEPT !.at = "sleep"]
    /\ UNCHANGED <<gdriveVars, slackVars>>

\* time.sleep returns
GLoopWake ==
    /\ LoopFrame
    /\ loop.src = "gdrive"
    /\ loop.at = "sleep"
    /\ loop' = [loop EXCEPT !.at = "test"]
    /\ UNCHANGED <<gdriveVars, slackVars>>

\* stop() is called by another thread while start() runs
GLoopStop ==
    /\ LoopFrame
    /\ loop.src = "gdrive"
    /\ InLoop
    /\ g_running
    /\ g_running' = FALSE
    /\ loop' = [loop EXCEPT
                   !.stopped = loop.at,
                   !.fresh = gpc = "scan" /\ poll.requests = <<>>]
    /\ UNCHANGED <<processed, gpc, folder, poll, completed, everFailed,
                   slackVars>>

\* start(), lines 181-183: KeyboardInterrupt is raised in the loop; poll() is
\* left where it stands, stop() is called and start() returns
GLoopInterrupt ==
    /\ LoopFrame
    /\ loop.src = "gdrive"
    /\ InLoop
    /\ g_running' = FALSE
    /\ gpc' = "idle"
    /\ loop' = [loop EXCEPT !.at = "returned"]
    /\ UNCHANGED <<processed, folder, poll, completed, everFailed, slackVars>>

\* the steps of the Drive source's thread that wait for no remote call
GLoopControl ==
    \/ GLoopTest
    \/ GLoopCall
    \/ loop.src = "gdrive" /\ loop.at = "poll" /\ PollEnd
    \/ GLoopSleep
    \/ GLoopWake

\* the steps of poll() in which a listing or a download returns or raises
GLoopRemote ==
    \/ loop.src = "gdrive" /\ loop.at = "poll" /\ PollListRaises
    \/ /\ loop.src = "gdrive"
       /\ loop.at = "poll"
       /\ PollFolder
       /\ Len(poll'.listing) <= MaxLoopListing

NextGLoop ==
    \/ GLoopStart
    \/ GLoopControl
    \/ GLoopRemote
    \/ GLoopStop
    \/ GLoopInterrupt

\* ---- SlackSource.start ----------------------------------------------------------
\* start(), lines 332-333: self._running = True
SLoopStart ==
    /\ LoopFrame
    /\ loop.src = "slack"
    /\ loop.at = "none"
    /\ s_running' = TRUE
    /\ loop' = [loop EXCEPT !.at = "test"]
    /\ UNCHANGED <<last_message_ts, user_cache, info_calls, s_inbox, remote,
                   spc, schan, slk, conv, gdriveVars>>

\* start(), line 336: while self._running
SLoopTest ==
    /\ LoopFrame
    /\ loop.src = "slack"
    /\ loop.at = "test"
    /\ loop' = [loop EXCEPT !.at = IF s_running THEN "call" ELSE "returned"]
    /\ UNCHANGED <<slackVars, gdriveVars>>

\* start(), line 337, and poll(), lines 276-283: poll() is called
SLoopCall ==
    /\ LoopFrame
    /\ loop.src = "slack"
    /\ loop.at = "call"
    /\ spc = "idle"
    /\ IF s_running
       THEN /\ SPollBegin
            /\ loop' = [loop EXCEPT !.at = "poll"]
       ELSE /\ slk' = [NoSlackPoll EXCEPT !.declined = TRUE]
            /\ loop' = [loop EXCEPT !.at = "sleep"]
            /\ UNCHANGED <<last_message_ts, spc, schan>>
    /\ UNCHANGED <<s_running, user_cache, info_calls, s_inbox, remote, conv,
                   gdriveVars>>

\* poll() has returned and time.sleep begins; or poll() has raised, and
\* start(), lines 342-344, sets the flag off and returns
SLoopSleep ==
    /\ LoopFrame
    /\ loop.src = "slack"
    /\ loop.at = "poll"
    /\ spc = "idle"
    /\ IF slk.raised
       THEN s_running' = FALSE /\ loop' = [loop EXCEPT !.at = "returned"]
       ELSE s_running' = s_running /\ loop' = [loop EXCEPT !.at = "sleep"]
    /\ UNCHANGED <<last_message_ts, user_cache, info_calls, s_inbox, remote,
                   spc, schan, slk, conv, gdriveVars>>

\* time.sleep returns
SLoopWake ==
    /\ LoopFrame
    /\ loop.src = "slack"
    /\ loop.at = "sleep"
    /\ loop' = [loop EXCEPT !.at = "test"]
    /\ UNCHANGED <<slackVars, gdriveVars>>

\* stop() is called by another thread while start() runs
SLoopStop ==
    /\ LoopFrame
    /\ loop.src = "slack"
    /\ InLoop
    /\ s_running
    /\ s_running' = FALSE
    /\ loop' = [loop EXCEPT
                   !.stopped = loop.at,
                   !.fresh = spc = "scan" /\ ~slk.fetched]
    /\ UNCHANGED <<last_message_ts, user_cache, info_calls, s_inbox, remote,
                   spc, schan, slk, conv, gdriveVars>>

\* start(), lines 339-341: KeyboardInterrupt is raised in the loop
SLoopInterrupt ==
    /\ LoopFrame
    /\ loop.src = "slack"
    /\ InLoop
    /\ s_running' = FALSE
    /\ spc' = "idle"
    /\ loop' = [loop EXCEPT !.at = "returned"]
    /\ UNCHANGED <<last_message_ts, user_cache, info_calls, s_inbox, remote,
                   schan, slk, conv, gdriveVars>>

\* a message is posted before the source is started
PostBefore ==
    /\ loop.src = "slack"
    /\ loop.at = "none"
    /\ Cardinality(Posted) < MaxLoopPosts
    /\ Post

\* the steps of the Slack source's thread that wait for no history request
SLoopControl ==
    \/ SLoopTest
    \/ SLoopCall
    \/ loop.src = "slack" /\ loop.at = "poll" /\ SPollEnd
    \/ SLoopSleep
    \/ SLoopWake

\* the step of poll() in which the history request of a channel returns or
\* raises
SLoopRemote == loop.src = "slack" /\ loop.at = "poll" /\ SPollChannel

NextSLoop ==
    \/ PostBefore
    \/ SLoopStart
    \/ SLoopControl
    \/ SLoopRemote
    \/ SLoopStop
    \/ SLoopInterrupt

\* ---- Poller.start ------------------------------------------------------------------
\* the one Poller of the process is constructed
FirstConstruct == loop.src = "poller" /\ boots = 0 /\ Construct

\* the steps of the Poller's thread that wait for no remote call: the end of
\* a cycle, the sleep, the loop's exit and the save that stop() makes
PollerControl ==
    \/ CycleEnd
    \/ Wake
    \/ LoopExit
    \/ SaveOpen
    \/ SaveWritePart
    \/ SaveWriteDone
    \/ SaveRename
    \/ SaveFail

\* the steps in which the listing or a download returns or raises
PollerRemote ==
    \/ cycles < MaxLoopCycles /\ PollBegin
    \/ cycles < MaxLoopCycles /\ PollListFail
    \/ DownloadOne

NextPLoop ==
    \/ FirstConstruct
    \/ Start
    \/ PollerControl
    \/ PollerRemote
    \/ LoopError
    \/ _handle_signal

\* one process of the Poller from its construction to the return of start():
\* nothing kills it and no second process follows
NextPollerRun ==
    \/ boots = 0 /\ Construct
    \/ Start
    \/ PollBegin
    \/ PollListFail
    \/ DownloadOne
    \/ PollerControl
    \/ LoopError
    \/ _handle_signal

InitLoops ==
    \E src \in {"poller", "gdrive", "slack"} :
        loop = [src |-> src, at |-> "none", stopped |-> "none",
                fresh |-> FALSE]

NextLoops ==
    \/ NextPLoop
    \/ NextGLoop
    \/ NextSLoop

\* the thread of start() goes on running: a step of it that waits for no
\* remote call is taken once it can be
LoopControl ==
    \/ PollerControl
    \/ GLoopControl
    \/ SLoopControl

LoopFairness == WF_vars(LoopControl)

\* a remote call is in flight, or about to be made by the poll in progress
RemoteCallInFlight ==
    \/ loop.src = "poller" /\ pc = "cycle" /\ queue # <<>>
    \/ loop.src = "gdrive" /\ gpc = "scan" /\ folder <= Len(Folders)
    \/ loop.src = "slack" /\ spc = "scan" /\ schan <= Len(last_message_ts)

\* no remote call stays in flight for ever
RemoteCallsReturn == []<>~RemoteCallInFlight

(***************************************************************************)
(* Part IX: two operations that choose a destination in one directory      *)
(*                                                                         *)
(* RoutingProcessor.process (routing.py:69-79 for the target inbox, 84-93  *)
(* for the archive), Poller._download_file (poller.py:93-107) and          *)
(* ProfessionalizerProcessor.process (professionalize.py:87-98) all choose *)
(* a destination the same way: a loop of Path.exists() calls that steps    *)
(* through name, name_1, name_2, ... and stops at the first path that does *)
(* not exist, then a write (shutil.copy2, shutil.move, FileIO(.., "wb"),   *)
(* open(.., "w")) that creates the path or replaces what is there.  No     *)
(* lock is taken and no exclusive-create flag is passed.  race.dir[n] is   *)
(* what the path with counter n holds ("free", "old" or the operation      *)
(* that wrote it), race.at[p] where operation p stands and race.n[p] the   *)
(* counter of the path it is looking at.                                   *)
(***************************************************************************)
\* files with the same name that the directory may hold beforehand
MaxOld == 2

Ops == {"a", "b"}

Slots == 0..(MaxOld + 1)

RaceIdle ==
    race = [dir |-> [s \in Slots |-> "free"], at |-> [p \in Ops |-> "off"],
            n |-> [p \in Ops |-> 0]]

InitRace ==
    \E old \in SUBSET (0..(MaxOld - 1)) :
        race = [dir |-> [s \in Slots |-> IF s \in old THEN "old" ELSE "free"],
                at |-> [p \in Ops |-> "idle"], n |-> [p \in Ops |-> 0]]

\* routing.py:69, poller.py:93: the destination is the directory / the name
RaceBegin(p) ==
    /\ RaceFrame
    /\ race.at[p] = "idle"
    /\ race' = [race EXCEPT !.at[p] = "probe", !.n[p] = 0]

\* routing.py:70-77, poller.py:98-104: one exists() call; the next name when
\* the path exists, and the loop ends when it does not
RaceProbe(p) ==
    /\ RaceFrame
    /\ race.at[p] = "probe"
    /\ IF race.dir[race.n[p]] # "free"
       THEN race' = [race EXCEPT !.n[p] = @ + 1]
       ELSE race' = [race EXCEPT !.at[p] = "write"]

\* routing.py:79, poller.py:107: the write creates the chosen path or
\* replaces the file that is there
RaceWrite(p) ==
    /\ RaceFrame
    /\ race.at[p] = "write"
    /\ race' = [race EXCEPT !.at[p] = "done", !.dir[race.n[p]] = p]

NextRace == \E p \in Ops : RaceBegin(p) \/ RaceProbe(p) \/ RaceWrite(p)

(***************************************************************************)
(* Properties of the Poller (checked under SpecPoller)                     *)
(***************************************************************************)

\* C1: in a poll cycle, no download_file call is issued for an identifier
\* that was a key of the state mapping when the cycle began, whatever the
\* listing returns.
C1_KnownIdNotDownloaded == dlNow # "none" => dlNow \notin startKeys

\* a cycle whose listing held a known identifier has issued a download
C1_Witness == dlNow # "none" /\ (startKeys \cap listed) # {}

\* C2 as stated: an identifier that a successful download has recorded in the
\* state is downloaded by no later poll cycle, of this process or of any
\* Poller started afterwards, crashes included.
C2_Original == dlNow # "none" => dlNow \notin startEver

\* C2 as amended: a poll cycle downloads no identifier that this process
\* recorded in an earlier cycle, and no identifier that the state file held
\* when the cycle began (so none that a completed save has persisted).
C2_RecordedOrSavedNotDownloaded ==
    dlNow # "none" => dlNow \notin (startBoot \cup startFile)

\* a later Poller, whose listing holds a persisted identifier, has issued a
\* download
C2_Witness == dlNow # "none" /\ boots > 1 /\ (startFile \cap listed) # {}

\* C3 as stated: at the end of each completed cycle of Poller.start the
\* content of the state file equals the in-memory state mapping.
C3_Original ==
    (pc = "sleep" /\ savePc = "none") =>
        (IF stateFile.exists /\ stateFile.complete THEN stateFile.data
         ELSE {}) = state

C4_Step ==
    /\ stateFile'.exists => stateFile'.complete
    /\ stateFile' # stateFile =>
          savePc = "written" /\ stateFile' = Snapshot(state)
    /\ (savePc # "none" /\ lastSave' = "failed") =>
          stateFile' = stateFile /\ ~tmpFile'.exists
    /\ (pc # "absent" /\ pc' = "absent") => stateFile' = stateFile

\* C4: _save_state is crash-atomic: every step leaves the state file a
\* complete mapping; the file changes only in the rename step, to the complete
\* new mapping; a crash at any step leaves it as it was; a failed save leaves
\* it as it was and removes the temporary file.
C4_SaveIsCrashAtomic == [][C4_Step]_vars

\* the process died in the middle of a dump: the temporary file is cut off
\* and the state file holds the previous mapping
C4_Witness ==
    /\ pc = "absent"
    /\ tmpFile.exists /\ ~tmpFile.complete /\ tmpFile.data # {}
    /\ stateFile.exists /\ stateFile.complete /\ stateFile.data # {}

(***************************************************************************)
(* Properties of the pipeline (checked under SpecPipeline)                 *)
(***************************************************************************)

\* the history entry the latest call appended
LastEntry == history[Len(history)]

Logged == Len(history) = last.histBefore + 1

\* C5 as stated: every call to process appends exactly one history entry, so
\* after n calls the history holds n entries.
C5_Original == Len(history) = calls

\* C6: when a stage returns no output, no later stage is invoked, process
\* returns no output, and the entry appended for the call has status
\* "failed" and one stage record per stage that ran, the last one failed with
\* a null output.
C6_DeclineHalts ==
    last.declined > 0 =>
        /\ Len(last.invoked) = last.declined
        /\ last.invoked[last.declined].output = NoPath
        /\ last.result = NoPath
        /\ Logged
        /\ LastEntry.status = "failed"
        /\ Len(LastEntry.stages) = Len(last.invoked)
        /\ \A i \in 1..Len(last.invoked) :
              /\ LastEntry.stages[i].processor = last.invoked[i].processor
              /\ LastEntry.stages[i].status =
                    (IF i = last.declined THEN "failed" ELSE "success")
              /\ LastEntry.stages[i].output = last.invoked[i].output

\* the second of two stages declined
C6_Witness ==
    /\ last.declined = 2
    /\ Len(history) > 0
    /\ Len(LastEntry.stages) = 2

\* C7: an exception raised by a processor does not reach the caller: process
\* returns no output and appends an entry with status "error" and the
\* exception text; every "error" entry of the history carries a text and no
\* output, whatever calls came after it.
C7_ErrorIsCaught ==
    /\ last.raised =>
          /\ ~last.propagated
          /\ last.result = NoPath
          /\ Logged
          /\ LastEntry.status = "error"
          /\ LastEntry.error # ""
    /\ \A k \in 1..Len(history) :
          history[k].status = "error" =>
              history[k].error # "" /\ history[k].output = NoPath

\* after a call that ended in an error the pipeline completed another call
C7_Witness ==
    /\ Len(history) >= 2
    /\ history[Len(history) - 1].status = "error"
    /\ LastEntry.status = "success"
    /\ ~last.raised

\* C8: the stages run in the order STT, professionalize; the first gets the
\* caller's path and every later one the path the stage before it returned;
\* on success every enabled stage has run, process returns the last stage's
\* output, and the entry's input and output are the caller's path and that
\* result.
C8_FixedOrderChain ==
    LET inv == last.invoked
    IN /\ Len(inv) <= 2
       /\ Len(inv) = 2 =>
             inv[1].processor = "stt" /\ inv[2].processor = "professionalize"
       /\ \A i \in 1..Len(inv) :
             /\ inv[i].processor = "stt" => enable_stt
             /\ inv[i].processor = "professionalize" => enable_professionalize
             /\ inv[i].input = (IF i = 1 THEN last.input ELSE inv[i - 1].output)
       /\ (last.existed /\ last.declined = 0 /\ ~last.raised) =>
             /\ Len(inv) = (IF enable_stt THEN 1 ELSE 0)
                             + (IF enable_professionalize THEN 1 ELSE 0)
             /\ last.result = (IF inv = <<>> THEN last.input
                               ELSE inv[Len(inv)].output)
             /\ Logged
             /\ LastEntry.status = "success"
             /\ LastEntry.input = last.input
             /\ LastEntry.output = last.result

\* a call ran both stages and succeeded
C8_Witness ==
    /\ Len(last.invoked) = 2
    /\ last.result # NoPath
    /\ Len(history) > 0
    /\ LastEntry.status = "success"

\* C9: process on a path that does not exist returns no output and invokes
\* no processor, and a history entry left for the call, if any, has no stage
\* records.
C9_MissingPathFailsFast ==
    (calls > 0 /\ ~last.existed) =>
        /\ last.result = NoPath
        /\ last.invoked = <<>>
        /\ Len(history) > last.histBefore => LastEntry.stages = <<>>

\* process was called on a missing path by a pipeline that has processors
C9_Witness ==
    /\ calls > 0
    /\ ~last.existed
    /\ enable_stt

\* the case of C10: an existing file with a supported audio extension, both
\* stages enabled, no I/O fault during the call
C10_Case ==
    /\ calls > 0
    /\ last.existed
    /\ Lower(last.input.ext) \in {"m4a", "mp3", "wav", "acc", "ogg", "flac"}
    /\ enable_stt /\ enable_professionalize
    /\ last.clean

HasHeading(path) ==
    path \in DOMAIN fs /\ \E i \in 1..Len(fs[path]) : fs[path][i] = "hd"

C10_Outcome ==
    /\ last.result # NoPath
    /\ last.result.ext = "md"
    /\ last.result \in DOMAIN fs
    /\ Logged
    /\ LastEntry.status = "success"
    /\ Len(LastEntry.stages) <= 3

\* C10 as stated: for every existing file with a supported audio extension,
\* the two-stage pipeline returns one .md file whose content contains the
\* generated heading, and the history gains one "success" entry with three or
\* fewer stage records.
C10_Original == C10_Case => (C10_Outcome /\ HasHeading(last.result))

\* C10 as amended: the .md file and the "success" entry as stated; the content
\* contains the generated heading when the text comes from the basic method
\* (Mellona is not available, or its call raised).
C10_HeadingFromBasicMethod ==
    C10_Case =>
        /\ C10_Outcome
        /\ (~mellona_available \/ last.llm = "fail") =>
              HasHeading(last.result)

\* the two-stage pipeline, without Mellona, processed an audio file
C10_Witness ==
    /\ C10_Case
    /\ ~mellona_available
    /\ HasHeading(last.result)

(***************************************************************************)
(* Properties of the processors called one by one (checked under           *)
(* SpecStages; C15 under SpecDetect)                                       *)
(***************************************************************************)

\* the step is one call RoutingProcessor.process on a file of the home inbox
\* in which neither shutil.copy2 nor shutil.move failed
RoutedStep ==
    /\ calls' = calls + 1
    /\ stage'.op = "route"
    /\ stage'.existed
    /\ stage'.fault = "none"

\* the directory the copy goes to, before and after the step
TargetBefore ==
    IF stage'.project \in Registered(cache) THEN pinbox[stage'.project]
    ELSE fs

TargetAfter ==
    IF stage'.project \in Registered(cache) THEN pinbox'[stage'.project]
    ELSE fs'

\* the step added exactly one file to the archive, with the given content
ArchivedAs(content) ==
    \E a \in DOMAIN archive' \ DOMAIN archive :
        /\ archive'[a] = content
        /\ DOMAIN archive' = DOMAIN archive \cup {a}

C11_Step ==
    (RoutedStep /\ stage'.project \in Registered(cache)) =>
        LET P == stage'.project
            src == stage'.input
            out == stage'.out
        IN /\ out # NoPath
           /\ out \in DOMAIN pinbox'[P] \ DOMAIN pinbox[P]
           /\ pinbox'[P][out] = fs[src]
           /\ src \notin DOMAIN fs'
           /\ ArchivedAs(fs[src])
           /\ \A Q \in Projects \ {P} : pinbox'[Q] = pinbox[Q]

\* C11: when detection yields a registered project P for a spec of the home
\* inbox, process copies the spec into P's inbox, moves the original into the
\* home archive so that it is gone from the home inbox, and returns the path
\* of the copy, whose content is the original's.
C11_RoutedToProject == [][C11_Step]_vars

\* a spec was routed to project alpha
C11_Witness ==
    /\ stage.op = "route"
    /\ stage.project = "alpha"
    /\ stage.out \in DOMAIN pinbox["alpha"]
    /\ stage.input \notin DOMAIN fs
    /\ stage.archived \in DOMAIN archive

C12_Step ==
    (RoutedStep /\ stage'.project = "none") =>
        /\ stage'.input \in DOMAIN fs'
        /\ fs'[stage'.input] = fs[stage'.input]
        /\ pinbox' = pinbox

\* C12 as stated: when no project is detected for a spec of the home inbox,
\* process performs no routing: the spec file stays in the home inbox at its
\* path with its content, and no project's inbox receives it.
C12_Original == [][C12_Step]_vars

\* every file of the directory but those excepted is still there, unchanged
KeptFiles(before, after, except) ==
    \A q \in DOMAIN before \ except :
        q \in DOMAIN after /\ after[q] = before[q]

\* q is p with the first counter whose name was free in the directory
FirstFreeCounter(q, p, dir) ==
    \E k \in 1..9 :
        /\ q = [p EXCEPT !.n = p.n * 10 + k]
        /\ \A j \in 1..(k - 1) : [p EXCEPT !.n = p.n * 10 + j] \in DOMAIN dir

C13_RouteStep ==
    RoutedStep =>
        LET src == stage'.input
            out == stage'.out
            routed == stage'.project \in Registered(cache)
        IN /\ src \in DOMAIN TargetBefore =>
                 /\ out # src
                 /\ out \notin DOMAIN TargetBefore
                 /\ FirstFreeCounter(out, src, TargetBefore)
                 /\ out \in DOMAIN TargetAfter
                 /\ TargetAfter[out] = fs[src]
                 /\ KeptFiles(TargetBefore, TargetAfter,
                              IF routed THEN {} ELSE {src})
           /\ src \in DOMAIN archive =>
                 \E a \in DOMAIN archive' \ DOMAIN archive :
                     /\ a # src
                     /\ FirstFreeCounter(a, src, archive)
                     /\ archive'[a] = fs[src]
                     /\ KeptFiles(archive, archive', {})

C13_ProStep ==
    (calls' = calls + 1 /\ stage'.op = "professionalize"
         /\ stage'.out # NoPath) =>
        LET src == stage'.input
            out == stage'.out
            base == [stem |-> src.stem, spec |-> src.spec + 1, n |-> 0,
                     ext |-> "md"]
        IN base \in DOMAIN fs =>
               /\ out # base
               /\ out \notin DOMAIN fs
               /\ \E k \in 1..9 :
                     /\ out = [base EXCEPT !.n = k]
                     /\ \A j \in 1..(k - 1) :
                           [base EXCEPT !.n = j] \in DOMAIN fs
               /\ out \in DOMAIN fs'
               /\ fs'[out] = <<"hd", "sec">> \o SelectSeq(fs[src], Kept)
               /\ KeptFiles(fs, fs', {})

\* C13: when the destination file name exists already (in the target inbox or
\* the home archive for routing, "<stem>-spec.md" for professionalization),
\* the operation writes to a name that was unused, built from the name with
\* the first free numeric suffix before the extension; every file that was in
\* the directory keeps its content (but the routed original itself, which is
\* moved to the archive), and the new file carries the content written.
C13_CollisionsAvoided == [][C13_RouteStep /\ C13_ProStep]_vars

\* a second spec of the same name, with another content, was routed to alpha
\* and archived: both copies and both originals are there
C13_Witness ==
    /\ stage.op = "route"
    /\ stage.project = "alpha"
    /\ stage.out = [SpecPath EXCEPT !.n = 1]
    /\ stage.archived = [SpecPath EXCEPT !.n = 1]
    /\ SpecPath \in DOMAIN pinbox["alpha"]
    /\ stage.out \in DOMAIN pinbox["alpha"]
    /\ pinbox["alpha"][SpecPath] # pinbox["alpha"][stage.out]
    /\ SpecPath \in DOMAIN archive
    /\ stage.archived \in DOMAIN archive
    /\ archive[SpecPath] # archive[stage.archived]

C14_Step ==
    (RoutedStep /\ stage'.beads
         /\ stage'.cli \in {"absent", "timeout", "nonzero"}) =>
        /\ stage'.bead = "none"
        /\ stage'.out # NoPath
        /\ stage'.out \in DOMAIN TargetAfter
        /\ TargetAfter[stage'.out] = fs[stage'.input]
        /\ ArchivedAs(fs[stage'.input])

\* C14: a failure of issue creation (the command absent, timing out or exiting
\* nonzero) does not make routing fail: when the copy and the archive move
\* have succeeded, process returns the routed path, and the copy and the
\* archived original are in place.
C14_IssueFailureTolerated == [][C14_Step]_vars

\* a spec was routed to alpha while the command timed out
C14_Witness ==
    /\ stage.op = "route"
    /\ stage.project = "alpha"
    /\ stage.beads
    /\ stage.cli = "timeout"
    /\ stage.out \in DOMAIN pinbox["alpha"]
    /\ stage.archived \in DOMAIN archive

\* the part of a text inside its first 500 characters
InWindow(text) ==
    IF \E i \in 1..Len(text) : text[i] = "pad"
    THEN SubSeq(text, 1,
                (CHOOSE i \in 1..Len(text) :
                     /\ text[i] = "pad"
                     /\ \A j \in 1..(i - 1) : text[j] # "pad") - 1)
    ELSE text

\* C15 as stated: detect_project applies its three rules in a fixed priority:
\* a registered name in a "Project:" tag wins over a registered "@name"
\* mention, which wins over a registered name occurring in the file name; a
\* tag or mention lying only after the first 500 characters has no effect;
\* with no match the result is none.
C15_Original ==
    (stage.op = "detect" /\ stage.existed /\ fs[stage.input] # <<"bin">>) =>
        LET w == InWindow(fs[stage.input])
            tags == {TagOf(w[i]) : i \in 1..Len(w)} \cap Registered(cache)
            mentions ==
                {MentionOf(w[i]) : i \in 1..Len(w)} \cap Registered(cache)
            named == NamesIn(stage.input.stem) \cap Registered(cache)
        IN IF tags # {} THEN stage.project \in tags
           ELSE IF mentions # {} THEN stage.project \in mentions
           ELSE IF named # {} THEN stage.project \in named
           ELSE stage.project = "none"

C16_Step ==
    (calls' = calls + 1 /\ stage'.op = "stt" /\ ~stage'.raised
         /\ (\/ stage'.input \notin DOMAIN fs
             \/ stage'.input.ext \notin
                    {"m4a", "mp3", "wav", "acc", "ogg", "flac",
                     "M4A", "MP3", "WAV", "ACC", "OGG", "FLAC"})) =>
        /\ stage'.out = NoPath
        /\ fs' = fs

\* C16: STTProcessor.process returns no output and writes no file whenever the
\* input file is missing or its extension is none of .m4a, .mp3, .wav, .acc,
\* .ogg, .flac (in either case of letters; the existence test answering).
C16_STTDeclines == [][C16_Step]_vars

\* the STT stage was called on an existing text file
C16_Witness ==
    /\ stage.op = "stt"
    /\ stage.existed
    /\ stage.input.ext = "txt"
    /\ stage.out = NoPath
    /\ ~stage.raised

C17_Step ==
    (calls' = calls + 1 /\ stage'.op = "professionalize" /\ ~stage'.raised
         /\ (\/ stage'.input \notin DOMAIN fs
             \/ \A i \in 1..Len(fs[stage'.input]) :
                    fs[stage'.input][i] = "ws")) =>
        /\ stage'.out = NoPath
        /\ fs' = fs

\* C17: ProfessionalizerProcessor.process returns no output and creates no
\* file whenever the input file is missing, is 0 bytes, or holds only
\* whitespace (the existence test answering).
C17_ProfessionalizerDeclines == [][C17_Step]_vars

\* the professionalizer was called on a file of whitespace
C17_Witness ==
    /\ stage.op = "professionalize"
    /\ stage.existed
    /\ stage.input \in DOMAIN fs
    /\ fs[stage.input] = <<"ws">>
    /\ stage.out = NoPath
    /\ ~stage.raised

(***************************************************************************)
(* Properties of GoogleDriveSource (checked under SpecGDrive)              *)
(***************************************************************************)

\* the first entry of a listing that is no folder and not in the set
FirstFresh(files, done) ==
    IF \E i \in 1..Len(files) :
           files[i].mime # "folder" /\ files[i].id \notin done
    THEN files[CHOOSE i \in 1..Len(files) :
                   /\ files[i].mime # "folder" /\ files[i].id \notin done
                   /\ \A j \in 1..(i - 1) :
                         files[j].mime = "folder" \/ files[j].id \in done]
    ELSE NoEntry

\* C18 as stated: a poll() call returns at most one SourceFile and issues at
\* most one download request: the request is for the first entry, in folder
\* and listing order, that is no sub-folder and not in the processed set, and
\* no later entry or folder is visited after it.
C18_Original ==
    /\ Len(poll.requests) <= 1
    /\ poll.later = 0
    /\ poll.result # "none" => poll.requests = <<[id |-> poll.result,
                                                  mime |-> "file"]>>
    /\ Len(poll.requests) = 1 =>
          poll.requests[1] =
              FirstFresh(poll.listing, processed \ {poll.requests[1].id})

C19_Step ==
    /\ processed \subseteq processed'
    /\ (poll'.requests # poll.requests /\ poll'.requests # <<>>) =>
          LET e == poll'.requests[Len(poll'.requests)]
          IN e.id \notin processed /\ e.mime # "folder"

\* C19: over any sequence of poll() calls on one source, an identifier that is
\* in the processed set is never downloaded again (and never leaves the set),
\* and an entry whose mime type is the folder type is never downloaded.
C19_NoRepeatNoFolder == [][C19_Step]_vars

\* a download was requested for the second entry of a listing whose first
\* entry had been processed before
C19_Witness ==
    /\ poll.requests # <<>>
    /\ Len(poll.listing) = 2
    /\ poll.listing[1].mime = "file"
    /\ poll.listing[1].id \in processed
    /\ poll.listing[1].id # poll.listing[2].id
    /\ poll.requests[Len(poll.requests)] = poll.listing[2]

C20_Step ==
    /\ processed' \subseteq completed'
    /\ (poll'.failed # poll.failed /\ poll'.failed # {}) =>
          /\ processed' = processed
          /\ poll'.result = "none"
          /\ (poll'.failed \ poll.failed) \cap processed' = {}

\* C20: when the download raises, _download_and_track returns none and does
\* not add the identifier to the processed set: the set holds only identifiers
\* whose download completed, so the file is still new to a later poll().
C20_FailedNotTracked == [][C20_Step]_vars

\* a poll() requests a file whose download raised in an earlier poll()
C20_Witness ==
    /\ poll.requests # <<>>
    /\ poll.requests[Len(poll.requests)].id \in everFailed
    /\ poll.requests[Len(poll.requests)].id \notin poll.failed
    /\ poll.result = poll.requests[Len(poll.requests)].id

(***************************************************************************)
(* Properties of the restarted Drive source (checked under                 *)
(* SpecGDriveRestart)                                                      *)
(***************************************************************************)

\* C21 as stated: after a restart of the process the Drive source lists the
\* folders again with an empty processed set, but it downloads no identifier
\* that is recorded in the durable state mapping.
C21_Original ==
    \A i \in 1..Len(poll.requests) :
        poll.requests[i].id \notin FileKeys(stateFile)

(***************************************************************************)
(* Properties of SlackSource (checked under SpecConv and SpecSlack)        *)
(***************************************************************************)

\* a message of a present, authorized author who is no bot, outside any
\* thread, with text
Eligible(message, authorized) ==
    /\ message.user # "none"
    /\ ~IsBot(message.user)
    /\ message.user \in authorized
    /\ message.thread \in {"absent", "self"}
    /\ message.text = "hello"

\* C22: _message_to_file produces a file only for a message whose author is
\* present, has no bot prefix and is in the authorized set, which is no
\* threaded reply and whose text is not empty after trimming; every other
\* message yields none and writes no file, also one whose bot-prefixed author
\* is listed in the authorized set.
C22_OnlyEligibleMessages ==
    conv.called =>
        /\ conv.file # NoFile =>
              /\ Eligible(conv.message, conv.authorized)
              /\ conv.wrote
              /\ conv.file = MessageFile(conv.message)
        /\ ~Eligible(conv.message, conv.authorized) =>
              conv.file = NoFile /\ ~conv.wrote

\* the call was given a message with text by a bot that is listed as
\* authorized, and returned none
C22_Witness ==
    /\ conv.called
    /\ conv.message.user = "B1"
    /\ "B1" \in conv.authorized
    /\ conv.message.thread = "absent"
    /\ conv.message.text = "hello"
    /\ conv.file = NoFile
    /\ ~conv.wrote

\* the greatest timestamp of a set
MaxOf(S) == CHOOSE x \in S : \A y \in S : y <= x

\* a step of poll() that fetches the messages of a channel
FetchStep ==
    /\ spc = "scan"
    /\ schan <= Len(last_message_ts)
    /\ spc' # spc \/ schan' # schan

C23_Step ==
    FetchStep =>
        /\ Len(last_message_ts') = Len(last_message_ts)
        /\ slk'.oldest = last_message_ts[schan].ts
        /\ \A t \in slk'.got : t > slk'.oldest
        /\ \A i \in 1..Len(last_message_ts) :
              /\ last_message_ts'[i].channel = last_message_ts[i].channel
              /\ last_message_ts'[i].ts =
                    IF i = schan /\ slk'.got # {} THEN MaxOf(slk'.got)
                    ELSE last_message_ts[i].ts

\* C23: after every fetch of a channel that returns at least one message, the
\* last-seen timestamp of the channel is the timestamp of the newest fetched
\* message, whether or not that message passes the filters; a fetch that
\* returns nothing or fails leaves it unchanged; and every fetch asks for the
\* messages newer than the last-seen timestamp.
C23_LastSeenIsNewest == [][C23_Step]_vars

\* a fetch that asked for the messages after an earlier one returned a
\* message by a bot, and the last-seen timestamp is that of the bot's message
C23_Witness ==
    /\ slk.fetched
    /\ slk.oldest > 0
    /\ slk.got # {}
    /\ slk.result = NoFile
    /\ \E i \in 1..Len(last_message_ts) :
          /\ last_message_ts[i].channel = slk.channel
          /\ last_message_ts[i].ts = MaxOf(slk.got)
    /\ \E j \in 1..Len(remote[slk.channel]) :
          /\ remote[slk.channel][j].ts = MaxOf(slk.got)
          /\ remote[slk.channel][j].user = "B1"

(***************************************************************************)
(* Properties of sanitize_filename (checked under SpecSanitize)            *)
(***************************************************************************)

\* C24 as stated: sanitize_filename is idempotent: for every file name s over
\* the alphabet, sanitize_filename(sanitize_filename(s)) equals
\* sanitize_filename(s).
C24_Original == san.calls >= 2 => san.name = san.prev

(***************************************************************************)
(* Properties of discovery and of the registry (checked under SpecRegistry)*)
(***************************************************************************)

\* the names in the cache of SubmoduleDiscoverer
SubmoduleNames == {disc.submodules[i].name : i \in 1..Len(disc.submodules)}

\* the projects that had an entry named .beads when the router was built
MarkedAtBuild == {p \in Projects : disc.atBuild[p] \in {"beadsfile", "beads"}}

\* the projects whose directory was missing when the router was built
MissingAtBuild == {p \in Projects : disc.atBuild[p] = "missing"}

\* C25 as stated: discovery never raises; a .gitmodules entry whose directory
\* does not exist is excluded from the result; and when .gitmodules is absent
\* discovery returns an empty project registry.
C25_Original ==
    disc.built =>
        /\ ~disc.raised
        /\ MissingAtBuild \cap (SubmoduleNames \cup NamesOf(disc.registry)) = {}
        /\ disc.gm.kind = "absent" =>
              disc.submodules = <<>> /\ disc.registry = <<>>

\* C25, corrected: SubmoduleDiscoverer does not raise and the construction of
\* the router raises only when "modules" exists and is no directory; an entry
\* whose directory does not exist is in neither cache; and when .gitmodules
\* is absent the submodule cache is empty and the registry holds just the
\* directories of modules/ with a .beads entry, found by the fallback scan.
C25_DiscoveryTolerant ==
    disc.built =>
        /\ disc.raised <=> disc.modules = "file"
        /\ MissingAtBuild \cap (SubmoduleNames \cup NamesOf(disc.registry)) = {}
        /\ disc.gm.kind = "absent" =>
              /\ disc.submodules = <<>>
              /\ NamesOf(disc.registry) = MarkedAtBuild

\* .gitmodules names a project whose directory is missing and one that is
\* there; the router was built and registered the second only
C25_Witness ==
    /\ disc.built
    /\ ~disc.raised
    /\ disc.gm.kind = "file"
    /\ \E i, j \in 1..Len(disc.gm.blocks) :
          /\ disc.gm.blocks[i].path
          /\ disc.atBuild[disc.gm.blocks[i].name] = "missing"
          /\ disc.gm.blocks[j].path
          /\ disc.gm.blocks[j].name \in NamesOf(disc.registry)
          /\ disc.gm.blocks[j].name \in SubmoduleNames

ListingFailed == pc = "loop" /\ pc' = "sleep"
DownloadFailed ==
    pc = "cycle" /\ pc' = "cycle" /\ queue' # queue /\ state' = state

C26_Step ==
    /\ (ListingFailed \/ DownloadFailed) =>
          /\ running' = running
          /\ savePc' = "none"
    /\ pc = "cycle" => pc' \in {"cycle", "sleep"}
    /\ (pc # "finally" /\ pc' = "finally") =>
          /\ (pc = "loop" /\ ~running) \/ pc = "sleep"
          /\ ~running'
          /\ savePc' = "open"
    /\ (pc # "exited" /\ pc' = "exited") =>
          /\ pc = "finally"
          /\ ~running'
          /\ lastSave' \in {"ok", "failed"}

\* C26: a listing failure or a download failure leaves the running flag and
\* the loop alone, a cycle ends only in the loop's sleep, the loop is left
\* only by the loop test with the flag off or by an exception outside the
\* cycle, leaving it calls stop() and enters _save_state, and start() returns
\* only after that save has ended, written or failed.
C26_FailuresKeepLoopExitSaves == [][C26_Step]_vars

\* a second cycle has begun after one in which a download failed with its
\* destination created and nothing was recorded
C26_Witness ==
    /\ pc = "cycle"
    /\ running
    /\ boots = 1
    /\ cycles >= 2
    /\ dlNow = "none"
    /\ inbox # {}
    /\ everRecorded = {}

QueueIds(q) == {q[i].id : i \in 1..Len(q)}

C27_Step ==
    /\ (pc = "loop" /\ pc' = "cycle") =>
          QueueIds(queue') = listed' \ Keys(state)
    /\ (pc = "cycle" /\ pc' = "cycle" /\ queue' # queue) =>
          /\ queue' = Tail(queue)
          /\ dlNow' = Head(queue).id
          /\ Keys(state') \subseteq Keys(state) \cup {Head(queue).id}
          /\ inbox' = inbox => state' = state
    /\ (pc = "cycle" /\ pc' = "sleep") => queue = <<>>

\* C27: a cycle queues every listed file whose identifier is not in the
\* state; each download step takes the head of the queue and leaves the rest
\* queued and every other identifier of the state as it was, one that creates
\* no destination records nothing, so that the file is queued again by the
\* next cycle that lists it; and the cycle ends only with the queue empty.
C27_FailureIsolatedToFile == [][C27_Step]_vars

\* the last new file of a cycle was downloaded and recorded after another new
\* file of the same cycle had failed
C27_Witness ==
    /\ pc = "cycle"
    /\ queue = <<>>
    /\ dlNow \in Keys(state) \ startKeys
    /\ \E id \in listed \ startKeys : id # dlNow /\ id \notin Keys(state)

\* ---- the running flag ----------------------------------------------------------
\* a message of channel i is newer than the last one seen there
Unseen(i) ==
    \E ts \in TsOf(remote[last_message_ts[i].channel]) :
        ts > last_message_ts[i].ts

C28_Step ==
    /\ (loop.src = "gdrive" /\ ~g_running /\ gpc = "idle") =>
          /\ gpc' = "idle"
          /\ poll' \in {poll, NoPoll}
          /\ UNCHANGED <<processed, completed, everFailed>>
    /\ (loop.src = "slack" /\ ~s_running /\ spc = "idle") =>
          /\ spc' = "idle"
          /\ slk' \in {slk, [NoSlackPoll EXCEPT !.declined = TRUE]}
          /\ UNCHANGED <<last_message_ts, user_cache, s_inbox>>

\* C28: with the flag of a source off and no poll() call in progress, whatever
\* is called next leaves the source outside poll()'s loop: a poll() call ends
\* with no request made, no result, no file written and nothing downloaded,
\* and the source's record of what it has seen is unchanged.
C28_NoPollWhileStopped == [][C28_Step]_vars

\* poll() has declined on a Slack source that was stopped after an earlier
\* poll, while a message it has not seen waits in one of its channels
C28_Witness ==
    /\ loop.src = "slack"
    /\ ~s_running
    /\ spc = "idle"
    /\ slk.declined
    /\ last_message_ts # <<>>
    /\ \E i \in 1..Len(last_message_ts) : Unseen(i)

\* stop() has been called and the loop of start() has not been left
StopPending ==
    \/ loop.src = "poller" /\ pc \in {"loop", "cycle", "sleep"} /\ ~running
    \/ loop.src = "gdrive" /\ InLoop /\ ~g_running
    \/ loop.src = "slack" /\ InLoop /\ ~s_running

\* start() has returned
Returned ==
    \/ loop.src = "poller" /\ pc = "exited"
    \/ loop.src \in {"gdrive", "slack"} /\ loop.at = "returned"

C29_Step ==
    /\ cycles' > cycles => running
    /\ (running /\ ~running' /\ pc' # "finally") =>
          /\ pc' = pc
          /\ UNCHANGED <<queue, state, inbox, dlNow>>
    /\ (pc = "cycle" /\ pc' # "cycle") => queue = <<>>
    /\ (gpc = "idle" /\ gpc' = "scan") => g_running
    /\ (g_running /\ ~g_running' /\ loop'.at # "returned") =>
          /\ loop'.at = loop.at
          /\ UNCHANGED <<gpc, folder, poll, processed, completed>>
    /\ (gpc = "scan" /\ gpc' = "idle" /\ loop'.at # "returned") =>
          poll'.result # "none" \/ folder > Len(Folders)
    /\ (spc = "idle" /\ spc' = "scan") => s_running
    /\ (s_running /\ ~s_running' /\ loop'.at # "returned") =>
          /\ loop'.at = loop.at
          /\ UNCHANGED <<spc, schan, slk, s_inbox, last_message_ts>>
    /\ (spc = "scan" /\ spc' = "idle" /\ loop'.at # "returned") =>
          \/ slk'.raised
          \/ slk'.result # NoFile
          \/ schan > Len(last_message_ts)

\* C29: a poll cycle begins only with the flag on; the step in which stop()
\* turns the flag off leaves the position of the loop, the poll in progress,
\* the queue of downloads and everything written so far as they are; a cycle
\* or a poll() call ends only by itself; and, when no remote call stays in
\* flight for ever, a loop whose flag is off leads to the return of start().
C29_StopEndsLoopBetweenCycles ==
    /\ [][C29_Step]_vars
    /\ RemoteCallsReturn => (StopPending ~> Returned)

\* start() of the Drive source has returned after stop() was called inside a
\* poll() that had requested nothing yet, and that poll() went on to download
\* a file
C29_Witness ==
    /\ loop.src = "gdrive"
    /\ loop.at = "returned"
    /\ loop.stopped = "poll"
    /\ loop.fresh
    /\ ~g_running
    /\ poll.result # "none"

\* ---- detect_project: the tags of the window ---------------------------------
\* the registered names that stand in a "Project:" tag of a window
RegisteredTags(w, c) == {TagOf(w[i]) : i \in 1..Len(w)} \cap Registered(c)

\* C31 as stated: when the first 500 characters of the spec hold a "Project:"
\* tag with a registered name, detect_project returns a registered name that
\* stands in such a tag, whatever other tags come before it.
C31_Original ==
    (/\ stage.op = "detect"
     /\ stage.existed
     /\ fs[stage.input] # <<"bin">>
     /\ RegisteredTags(InWindow(fs[stage.input]), cache) # {}) =>
        stage.project \in RegisteredTags(InWindow(fs[stage.input]), cache)

\* ---- the Drive source: a download that keeps failing --------------------------
\* the listing the running poll() has just read shows id as a file that is
\* not yet processed
ListedUnprocessed(id) ==
    /\ g_running
    /\ id \notin processed
    /\ \E i \in 1..Len(poll.listing) :
          poll.listing[i] = [id |-> id, mime |-> "file"]

\* C32 as stated: when poll() is called again and again, a file that the polls
\* keep finding unprocessed in a listing, and whose own download never fails,
\* is downloaded by some poll(), whatever happens to the other files of its
\* folder.  (Every poll() begins with no listing read, so a file found again
\* and again is listed again and again.)
C32_Original ==
    \A id \in FileIds :
        (/\ []<>(gpc = "scan")
         /\ []<>ListedUnprocessed(id)
         /\ [](id \notin everFailed))
            => <>(id \in completed)

\* ---- the Slack source: the messages of one batch ------------------------------
\* the last timestamp seen in a channel
LastSeen(channel) ==
    LET i == CHOOSE i \in 1..Len(last_message_ts) :
                 last_message_ts[i].channel = channel
    IN last_message_ts[i].ts

\* the messages of the latest fetch that pass the filters and are newer than
\* the one poll() returned
LeftBehind ==
    {ts \in slk.got :
        /\ ts > slk.result.ts
        /\ \E i \in 1..Len(remote[slk.channel]) :
              /\ remote[slk.channel][i].ts = ts
              /\ Eligible(remote[slk.channel][i], authorized_user_ids)}

\* C33 as stated, for the batch of one fetch: when poll() has returned one
\* message of a batch, no other message of the batch that passes the filters
\* is skipped: each of them is still ahead of the channel's last-seen
\* timestamp, so that a later poll() fetches and returns it.
C33_Original ==
    (spc = "idle" /\ slk.fetched /\ slk.result # NoFile) =>
        \A ts \in LeftBehind : ts > LastSeen(slk.channel)

\* ---- the overall status of the history entries --------------------------------
AllSucceeded(stages, n) == \A i \in 1..n : stages[i].status = "success"

\* C38: every entry of the history has status success, failed or error,
\* never pending; it is success exactly when it holds one successful stage
\* record per configured processor, in their order (none when no processor
\* is enabled, and then the output is the input path itself); it is failed
\* exactly when its last stage record is failed and all earlier ones are
\* successful.
C38_EntryStatus ==
    LET procs == Processors(enable_stt, enable_professionalize)
    IN \A k \in 1..Len(history) :
          LET e == history[k]
              n == Len(e.stages)
          IN /\ e.status \in {"success", "failed", "error"}
             /\ e.status = "success" <=>
                   /\ n = Len(procs)
                   /\ AllSucceeded(e.stages, n)
                   /\ \A i \in 1..n : e.stages[i].processor = procs[i]
             /\ e.status = "failed" <=>
                   /\ n >= 1
                   /\ e.stages[n].status = "failed"
                   /\ AllSucceeded(e.stages, n - 1)
             /\ (e.status = "success" /\ procs = <<>>) => e.output = e.input

\* the history holds a success with both stage records and a failure in the
\* second stage
C38_Witness ==
    \E j, k \in 1..Len(history) :
        /\ history[j].status = "success" /\ Len(history[j].stages) = 2
        /\ history[k].status = "failed" /\ Len(history[k].stages) = 2

\* a pipeline without processors has logged a success
C38_WitnessEmpty ==
    /\ ~enable_stt /\ ~enable_professionalize
    /\ \E k \in 1..Len(history) :
          history[k].status = "success" /\ history[k].stages = <<>>

\* ---- RoutingProcessor.process: a call that returns none -----------------------
C34_Step ==
    (calls' = calls + 1 /\ stage'.op = "route" /\ stage'.out = NoPath) =>
        UNCHANGED <<fs, archive, pinbox>>

\* C34 as stated: a RoutingProcessor.process call that returns none leaves the
\* home inbox, the home archive and every target inbox as they were; no copy
\* of the spec is left in a target inbox while the original sits in the home
\* inbox.
C34_Original == [][C34_Step]_vars

\* ---- two operations choosing a destination at the same time ------------------
\* C35 as stated: whatever the interleaving of the existence checks and the
\* writes of two operations that choose a destination for the same file name
\* in one directory, they end with two distinct files and neither has
\* replaced the other's file.
C35_Original ==
    (\A p \in Ops : race.at[p] = "done") =>
        /\ race.n["a"] # race.n["b"]
        /\ \A p \in Ops : race.dir[race.n[p]] = p

\* ---- ProcessingPipeline.process and the files that were there before ---------
C36_Step ==
    calls' = calls + 1 =>
        \A p \in DOMAIN fs : p \in DOMAIN fs' /\ fs'[p] = fs[p]

\* C36 as stated: a ProcessingPipeline.process call never modifies or deletes
\* a file that existed before the call; the stages create files only at
\* paths that were free.
C36_Original == [][C36_Step]_vars

\* ---- the destination of a download ---------------------------------------------
C37_Step ==
    (processed' # processed \/ everRecorded' # everRecorded) =>
        Cardinality(inbox') = Cardinality(inbox) + 1

\* C37 as stated: every download that completes, by Poller._download_file
\* (it adds to the recorded identifiers) and by
\* GoogleDriveSource._download_and_track (it adds to the processed ones), is
\* written to a path that did not exist before it: the inbox has one file
\* more after it, also when two files of the same name are fetched within the
\* same second.
C37_Original == [][C37_Step]_vars

\* ---- the issue requested for a routed spec -------------------------------------
\* the latest call asked the command line for an issue
Requested ==
    /\ stage.op \in {"route", "bead"}
    /\ stage.existed /\ stage.fault = "none" /\ stage.beads

\* the routed spec of the latest call and its text
RoutedSpec == IF stage.op = "bead" THEN stage.input ELSE stage.out

RoutedText ==
    IF stage.op = "bead" THEN pinbox[stage.project][stage.input]
    ELSE archive[stage.archived]

NonEmptyLines(text) ==
    IF text = <<"bin">> THEN <<>> ELSE SelectSeq(text, LAMBDA l : l # "ws")

\* C39 as stated: when the routed target has the marker directory, the issue
\* is requested with the title "Process inbox item: <stem of the routed
\* spec>" and a description equal to the spec's first non-empty line cut to
\* 100 characters, or the fallback naming the source when the spec has no
\* non-empty line.
C39_Original ==
    Requested =>
        /\ stage.request.title = [RoutedSpec EXCEPT !.ext = ""]
        /\ stage.request.description =
              (IF NonEmptyLines(RoutedText) = <<>> THEN Fallback(stage.source)
               ELSE Cut100(Head(NonEmptyLines(RoutedText))))

\* ---- users_info calls -----------------------------------------------------------
\* C40 as stated: over any sequence of polls the Slack source makes at most
\* one users_info call per distinct author for the lifetime of the source;
\* every later lookup of that author is answered from the cache.
C40_Original == \A u \in Users : info_calls[u] <= 1

(***************************************************************************)
(* Specifications                                                          *)
(***************************************************************************)
\* the parts added to the Poller and the pipeline are not in use
UtilIdle == SanIdle /\ DiscIdle

SlackIdle == InitSlack /\ ConvIdle

\* the Poller alone: no pipeline is in use
InitPollerOnly ==
    /\ InitPoller /\ PipeIdle /\ StageIdle /\ InitGDrive
    /\ UtilIdle /\ SlackIdle /\ LoopIdle /\ RaceIdle

SpecPoller == InitPollerOnly /\ [][NextPoller]_vars

\* the pipeline alone: no Poller process exists
InitPipelineOnly ==
    /\ InitPipeline /\ InitPoller /\ StageIdle /\ InitGDrive
    /\ UtilIdle /\ SlackIdle /\ LoopIdle /\ RaceIdle

SpecPipeline == InitPipelineOnly /\ [][NextPipeline]_vars

\* the processors called one by one on the home inbox
InitStages ==
    /\ InitStageDirs /\ PipeIdle /\ InitPoller /\ InitGDrive
    /\ UtilIdle /\ SlackIdle /\ LoopIdle /\ RaceIdle

SpecStages == InitStages /\ [][NextStages]_vars

\* detect_project on one spec file
InitDetect ==
    /\ InitDetectFiles
    /\ enable_stt = TRUE
    /\ enable_professionalize = TRUE
    /\ mellona_available = FALSE
    /\ history = <<>>
    /\ last = NoCall
    /\ InitPoller
    /\ InitGDrive
    /\ UtilIdle /\ SlackIdle /\ LoopIdle /\ RaceIdle

SpecDetect == InitDetect /\ [][NextDetect]_vars

\* the Drive source alone
InitGDriveOnly ==
    /\ InitGDrive /\ InitPoller /\ PipeIdle /\ StageIdle
    /\ UtilIdle /\ SlackIdle /\ LoopIdle /\ RaceIdle

SpecGDrive == InitGDriveOnly /\ [][NextGDrive]_vars

\* the Drive source started and polled for ever: a step of poll() that can be
\* taken is taken
SpecGDriveFair ==
    InitGDriveOnly /\ [][NextGDrivePolled]_vars /\ WF_vars(GPolling)

\* the Drive source in a process that is started again, next to the state
\* file of the Poller
InitGDriveRestart ==
    /\ InitGDrive /\ InitDurable /\ PipeIdle /\ StageIdle
    /\ UtilIdle /\ SlackIdle /\ LoopIdle /\ RaceIdle

SpecGDriveRestart == InitGDriveRestart /\ [][NextGDriveRestart]_vars

\* sanitize_filename applied again and again to one name
InitSanitizeOnly ==
    /\ InitSanitize /\ DiscIdle /\ InitPoller /\ PipeIdle /\ StageIdle
    /\ InitGDrive /\ SlackIdle /\ LoopIdle /\ RaceIdle

SpecSanitize == InitSanitizeOnly /\ [][NextSanitize]_vars

\* the construction of the router on one repository, and routing calls
InitRegistryOnly ==
    /\ InitRegistry /\ SanIdle /\ InitPoller /\ PipeIdle /\ StageIdle
    /\ InitGDrive /\ SlackIdle /\ LoopIdle /\ RaceIdle

SpecRegistry == InitRegistryOnly /\ [][NextRegistry]_vars

\* one _message_to_file call
InitConvOnly ==
    /\ InitConv /\ InitSlack /\ InitPoller /\ PipeIdle /\ StageIdle
    /\ InitGDrive /\ UtilIdle /\ LoopIdle /\ RaceIdle

SpecConv == InitConvOnly /\ [][NextConv]_vars

\* the Slack source alone
InitSlackOnly ==
    /\ InitSlack /\ ConvIdle /\ InitPoller /\ PipeIdle /\ StageIdle
    /\ InitGDrive /\ UtilIdle /\ LoopIdle /\ RaceIdle

SpecSlack == InitSlackOnly /\ [][NextSlack]_vars

\* one run of the Poller
SpecPollerRun == InitPollerOnly /\ [][NextPollerRun]_vars

\* one of the two sources, its poll() and stop() called directly
InitSourcesOnly ==
    /\ InitGDrive /\ SlackIdle /\ InitPoller /\ PipeIdle /\ StageIdle
    /\ UtilIdle /\ InitSources /\ RaceIdle

SpecSources == InitSourcesOnly /\ [][NextSources]_vars

\* a process that runs the start() loop of the Poller or of one source
InitLoopsOnly ==
    /\ InitGDrive /\ SlackIdle /\ InitPoller /\ PipeIdle /\ StageIdle
    /\ UtilIdle /\ InitLoops /\ RaceIdle

SpecLoops == InitLoopsOnly /\ [][NextLoops]_vars /\ LoopFairness

\* two operations that choose a destination for one name in one directory
InitRaceOnly ==
    /\ InitPoller /\ PipeIdle /\ StageIdle /\ InitGDrive
    /\ UtilIdle /\ SlackIdle /\ LoopIdle /\ InitRace

SpecRace == InitRaceOnly /\ [][NextRace]_vars

\* _download_and_track called directly on the files of a folder
InitGDownloadOnly ==
    /\ InitPoller /\ PipeIdle /\ StageIdle /\ InitGDrive
    /\ UtilIdle /\ SlackIdle /\ LoopIdle /\ RaceIdle

SpecGDownload == InitGDownloadOnly /\ [][NextGDownload]_vars

\* _create_bead_for_spec on one routed spec
InitBead ==
    /\ InitBeadFiles /\ PipeIdle /\ InitPoller /\ InitGDrive
    /\ UtilIdle /\ SlackIdle /\ LoopIdle /\ RaceIdle

SpecBead == InitBead /\ [][NextBead]_vars

====
